---- MODULE Spec2Model ----
(***************************************************************************)
(* Model of src/webgpu/util/webgpu_memory.ts: the WebGPU memory tracker.   *)
(* The module state of the tracker (nextId, allWebGPUObjectsById,          *)
(* deviceIdToDeviceWeakRef, the id symbol stamped on objects) is modelled  *)
(* together with the part of the JavaScript heap it observes: which        *)
(* objects the application still references, and which have been           *)
(* collected (so that WeakRef.deref() returns undefined).                  *)
(***************************************************************************)
EXTENDS Integers, FiniteSets, Sequences, TLC

\* ------------------------------------------------------------ bounds
\* Devices that can be obtained through the wrapped GPUAdapter.requestDevice.
MaxDevices == 2
\* Resources (buffers, textures, ...) that can be created.
MaxResources == 2
\* Canvas contexts of the page.
MaxContexts == 1
\* Identities the counter may hand out: no call that would take one is made
\* once nextId has passed MaxIds.
MaxIds == 4

\* ------------------------------------------------------------ objects
\* undefined, as a value of obj[webgpuMemoryIdSymbol], of Map.get, of deref()
Undefined == 0

\* Devices obtained through the wrapped requestDevice.
TrackedDevices == {<<"dev", i>> : i \in 1..MaxDevices}
\* A device obtained before the wrappers were installed (the module wraps
\* the prototypes when it is first imported, line 290): it never passed
\* through addDevice and carries no id.
UntrackedDevices == {<<"dev", 0>>}
Devices == TrackedDevices \cup UntrackedDevices
Resources == {<<"res", i>> : i \in 1..MaxResources}
Contexts == {<<"ctx", i>> : i \in 1..MaxContexts}
Objects == Devices \cup Resources \cup Contexts
NoObject == <<"none", 0>>

\* ------------------------------------------------------------ formats
\* kTextureFormatInfo (src/webgpu/format_info.ts): block geometry per format.
kTextureFormatInfo ==
  [f \in {"rgba8unorm", "rgba16float", "bc1-rgba-unorm", "bc3-rgba-unorm"} |->
     CASE f = "rgba8unorm"     -> [blockWidth |-> 1, blockHeight |-> 1, bytesPerBlock |-> 4]
       [] f = "rgba16float"    -> [blockWidth |-> 1, blockHeight |-> 1, bytesPerBlock |-> 8]
       [] f = "bc1-rgba-unorm" -> [blockWidth |-> 4, blockHeight |-> 4, bytesPerBlock |-> 8]
       [] f = "bc3-rgba-unorm" -> [blockWidth |-> 4, blockHeight |-> 4, bytesPerBlock |-> 16]]

\* Math.ceil(a / b) for non-negative integers a and positive b
MathCeilDiv(a, b) == (a + b - 1) \div b

\* Math.max(1, (x / 2) | 0)
HalveDim(x) == IF x \div 2 < 1 THEN 1 ELSE x \div 2

\* The loop with the block counts taken from the halved width and height
RECURSIVE MipLoopHalved(_, _, _, _, _)
MipLoopHalved(texture, level, width, height, size) ==
  IF level >= texture.mipLevelCount THEN size
  ELSE LET fi == kTextureFormatInfo[texture.format]
           blocksAcross == MathCeilDiv(width * texture.sampleCount, fi.blockWidth)
           blocksDown == MathCeilDiv(height * texture.sampleCount, fi.blockHeight)
           numBlocks == blocksAcross * blocksDown
           bytesUsed == numBlocks * fi.bytesPerBlock
       IN MipLoopHalved(texture, level + 1, HalveDim(width), HalveDim(height),
                        size + bytesUsed)

\* The for loop of computeTextureMemorySize (lines 159-168): level runs from
\* `level` to mipLevelCount-1; width and height are the loop's halved locals,
\* which the block computation does not read.
RECURSIVE MipLoop(_, _, _, _, _)
MipLoop(texture, level, width, height, size) ==
  IF level >= texture.mipLevelCount THEN size
  ELSE LET fi == kTextureFormatInfo[texture.format]
           blocksAcross == MathCeilDiv(texture.width * texture.sampleCount, fi.blockWidth)
           blocksDown == MathCeilDiv(texture.height * texture.sampleCount, fi.blockHeight)
           numBlocks == blocksAcross * blocksDown
           bytesUsed == numBlocks * fi.bytesPerBlock
       IN MipLoop(texture, level + 1, HalveDim(width), HalveDim(height), size + bytesUsed)

\* computeTextureMemorySize that takes depthOrArrayLayers for the layers of a
\* 3d texture too
computeTextureMemorySizeLayers3d(texture) ==
  MipLoop(texture, 0, texture.width, texture.height, 0) * texture.depthOrArrayLayers

computeTextureMemorySize(texture) ==
  LET layers == IF texture.dimension = "3d" THEN 1 ELSE texture.depthOrArrayLayers
  IN MipLoop(texture, 0, texture.width, texture.height, 0) * layers

kTexturesPerCanvas == 2

computeCanvasBytesUsed(canvas, format) ==
  computeTextureMemorySize([format |-> format, width |-> canvas.width,
                            height |-> canvas.height, depthOrArrayLayers |-> 1,
                            sampleCount |-> 1, mipLevelCount |-> 1,
                            dimension |-> "2d"]) * kTexturesPerCanvas

\* ------------------------------------------------------------ state
VARIABLES
  nextId,                   \* let nextId = 1 (line 27)
  objId,                    \* obj[webgpuMemoryIdSymbol] of every object (0: not set)
  allWebGPUObjectsById,     \* Map<number, ObjectInfo> (line 28)
  deviceIdToDeviceWeakRef,  \* Map<number, WeakRef<GPUDevice>> (line 9)
  heap,                     \* per object: "none" (not created yet), "live" (it
                            \* derefs), "collected" (deref() gives undefined);
                            \* for a device also "requested" (requestDevice was
                            \* called for it and its promise is pending)
  class,                    \* per object: its interface ("none" before creation)
  destroyed,                \* per device: GPUDevice.destroy() has been called
  canvas,                   \* per context: context.canvas, [width, height]
  last,                     \* the call that was made last
  ret                       \* what that call returned

\* The state of patchWebGPU (src/unnamed/part_000), the error-scope layer
VARIABLES
  deviceToErrorScopeStack,  \* WeakMap<GPUDevice, ErrorScopeStackEntry[]> (line 30)
  deviceIsCompatSet,        \* WeakSet<GPUDevice> (line 29)
  textureToDeviceWeakMap,   \* WeakMap<GPUTexture, WeakRef<GPUDevice>> (line 31)
  pendingPops,              \* the calls of popErrorScope that wait at line 67, in
                            \* the order they were made, each with its errorScope
  uncapturedErrors,         \* the events dispatched at line 104, in order
  errorsMade,               \* how many GPUValidationError objects the layer made
  pushes,                   \* per device: calls of pushErrorScope so far
  pops                      \* per device: calls of popErrorScope that got a scope

patchVars == <<deviceToErrorScopeStack, deviceIsCompatSet, textureToDeviceWeakMap,
               pendingPops, uncapturedErrors, errorsMade, pushes, pops>>

\* The state of getProvokingVertexForFlatInterpolationEitherSampling
\* (src/unnamed/part_001): its cache, the calls made of it, and what they
\* have created on and submitted to the GPU
VARIABLES s_deviceToEitherSamplingIndex, probeCalls, gpuObjects, submitted

probeVars == <<s_deviceToEitherSamplingIndex, probeCalls, gpuObjects, submitted>>

vars == <<nextId, objId, allWebGPUObjectsById, deviceIdToDeviceWeakRef, heap,
          class, destroyed, canvas, last, ret, patchVars, probeVars>>

\* The tracker's own state, passed through the functions below.
Tracker == [nextId |-> nextId, ids |-> objId, objects |-> allWebGPUObjectsById,
            devices |-> deviceIdToDeviceWeakRef]

\* ------------------------------------------------------------ JS values
\* new WeakRef(o): a reference that does not keep o alive
WeakRef(o) == [weak |-> TRUE, target |-> o]

\* ref.deref(): the target, or undefined once the target has been collected
deref(ref) == IF heap[ref.target] = "collected" THEN NoObject ELSE ref.target

\* Map.prototype.set / delete / has
MapSet(map, k, v) == [x \in DOMAIN map \cup {k} |-> IF x = k THEN v ELSE map[x]]
MapDelete(map, k) == [x \in DOMAIN map \ {k} |-> map[x]]
MapHas(map, k) == k \in DOMAIN map
EmptyMap == [x \in {} |-> 0]

\* A size that is a number (line 24, `number`)
FixedSize(n) == [isFn |-> FALSE, bytes |-> n, format |-> "none", captured |-> {}]
\* The arrow function of addContext (lines 267-268): it closes over `format` only.
CanvasSizeFn(format) == [isFn |-> TRUE, bytes |-> 0, format |-> format, captured |-> {}]

\* ------------------------------------------------------------ the tracker
setIdOnObject(m, obj, id) == [m EXCEPT !.ids[obj] = id]

getIdOfObject(m, obj) == m.ids[obj]

\* addDeviceObject storing the object itself in `ref` instead of a WeakRef
addDeviceObjectStrongRef(m, device, webgpuObject, category, size) ==
  LET tagged == getIdOfObject(m, webgpuObject)
      id == IF tagged = Undefined THEN m.nextId ELSE tagged
      m1 == IF tagged = Undefined
              THEN setIdOnObject([m EXCEPT !.nextId = @ + 1], webgpuObject, id)
              ELSE m
  IN [m1 EXCEPT !.objects =
        MapSet(@, id, [ref |-> [weak |-> FALSE, target |-> webgpuObject], id |-> id,
                       deviceId |-> getIdOfObject(m, device),
                       category |-> category, size |-> size])]

\* addDeviceObject without line 42: the new id is not stamped on the object
addDeviceObjectNoStamp(m, device, webgpuObject, category, size) ==
  LET tagged == getIdOfObject(m, webgpuObject)
      id == IF tagged = Undefined THEN m.nextId ELSE tagged
      m1 == IF tagged = Undefined THEN [m EXCEPT !.nextId = @ + 1] ELSE m
  IN [m1 EXCEPT !.objects =
        MapSet(@, id, [ref |-> WeakRef(webgpuObject), id |-> id,
                       deviceId |-> getIdOfObject(m, device),
                       category |-> category, size |-> size])]

\* addDeviceObject storing its entry with the device's id in the id field
addDeviceObjectIdOfDevice(m, device, webgpuObject, category, size) ==
  LET tagged == getIdOfObject(m, webgpuObject)
      id == IF tagged = Undefined THEN m.nextId ELSE tagged
      m1 == IF tagged = Undefined
              THEN setIdOnObject([m EXCEPT !.nextId = @ + 1], webgpuObject, id)
              ELSE m
  IN [m1 EXCEPT !.objects =
        MapSet(@, id, [ref |-> WeakRef(webgpuObject), id |-> getIdOfObject(m, device),
                       deviceId |-> getIdOfObject(m, device),
                       category |-> category, size |-> size])]

addDeviceObject(m, device, webgpuObject, category, size) ==
  LET tagged == getIdOfObject(m, webgpuObject)
      id == IF tagged = Undefined THEN m.nextId ELSE tagged
      m1 == IF tagged = Undefined
              THEN setIdOnObject([m EXCEPT !.nextId = @ + 1], webgpuObject, id)
              ELSE m
  IN [m1 EXCEPT !.objects =
        MapSet(@, id, [ref |-> WeakRef(webgpuObject), id |-> id,
                       deviceId |-> getIdOfObject(m, device),
                       category |-> category, size |-> size])]

addDeviceMem(m, device, webgpuObject, category, size) ==
  addDeviceObject(m, device, webgpuObject, category, size)

\* deviceExists without the deref: a device that is registered and collected
\* would count as existing
deviceExistsNoDeref(m, deviceId) == MapHas(m.devices, deviceId)

deviceExists(m, deviceId) ==
  /\ MapHas(m.devices, deviceId)
  /\ deref(m.devices[deviceId]) # NoObject

\* freeObjectById as an array splice would do it: an id that is not found
\* (index -1) takes out the last entry
freeObjectByIdSplice(m, id) ==
  IF MapHas(m.objects, id) \/ DOMAIN m.objects = {}
    THEN [m EXCEPT !.objects = MapDelete(@, id)]
    ELSE [m EXCEPT !.objects =
            MapDelete(@, CHOOSE k \in DOMAIN @ : \A j \in DOMAIN @ : j <= k)]

freeObjectById(m, id) == [m EXCEPT !.objects = MapDelete(@, id)]

\* freeObject that leaves the table as it is
freeObjectKeepsEntry(m, webgpuObject) == m

freeObject(m, webgpuObject) == freeObjectById(m, getIdOfObject(m, webgpuObject))

\* addDevice with `nextId` in place of `nextId++`
addDeviceNoIncrement(m, device) ==
  LET id == m.nextId
  IN [setIdOnObject(m, device, id) EXCEPT !.devices = MapSet(@, id, WeakRef(device))]

addDevice(m, device) ==
  LET id == m.nextId
  IN [setIdOnObject([m EXCEPT !.nextId = @ + 1], device, id)
        EXCEPT !.devices = MapSet(@, id, WeakRef(device))]

\* removeDevice that leaves the device's entry in place
removeDeviceKeepsEntry(m, device) == m

removeDevice(m, device) ==
  [m EXCEPT !.devices = MapDelete(@, getIdOfObject(m, device))]

\* the ids of a set in ascending order (the for..of walk; the sums it forms do
\* not depend on the order)
RECURSIVE Ascending(_)
Ascending(S) ==
  IF S = {} THEN <<>>
  ELSE LET lo == CHOOSE x \in S : \A y \in S : x <= y
       IN <<lo>> \o Ascending(S \ {lo})

\* A size function that has the bytes of the canvas as it was when the page
\* was loaded, whatever its size is when the function is called
callSizeOfInitialCanvas(size, webgpuObject) ==
  computeCanvasBytesUsed([width |-> 4, height |-> 4], size.format)

\* size(webgpuObject) for a size that is a function: the closure of addContext
callSize(size, webgpuObject) == computeCanvasBytesUsed(canvas[webgpuObject], size.format)

\* The test of line 117 without `!webgpuObject`
isStaleDeviceOnly(m, e) == ~deviceExists(m, e.deviceId)

\* The test of line 117
isStale(m, e) == deref(e.ref) = NoObject \/ ~deviceExists(m, e.deviceId)

\* visitEntry that counts a stale entry once more before it marks it for
\* deletion
visitEntryCountsStale(m, requestedDeviceId, acc, id) ==
  LET e == m.objects[id]
      counted == [acc EXCEPT !.resources =
                    MapSet(@, e.category,
                           (IF MapHas(@, e.category) THEN @[e.category] ELSE 0) + 1)]
  IN IF isStale(m, e)
       THEN [counted EXCEPT !.idsToDelete = Append(@, id)]
     ELSE IF requestedDeviceId = Undefined \/ e.deviceId = requestedDeviceId
       THEN LET truthy == e.size.isFn \/ e.size.bytes # 0
                numBytes == IF e.size.isFn THEN callSize(e.size, deref(e.ref))
                            ELSE e.size.bytes
            IN IF ~truthy THEN counted
               ELSE [counted EXCEPT !.memory =
                       IF MapHas(@, e.category)
                         THEN [@ EXCEPT !["total"] = @ + numBytes,
                                        ![e.category] = @ + numBytes]
                         ELSE MapSet([@ EXCEPT !["total"] = @ + numBytes],
                                     e.category, "NaN")]
     ELSE acc

\* visitEntry with the test of line 120 made before that of line 117: an entry
\* of a device other than the requested one is passed over, stale or not
visitEntryFilterFirst(m, requestedDeviceId, acc, id) ==
  LET e == m.objects[id]
      webgpuObject == deref(e.ref)
  IN IF requestedDeviceId # Undefined /\ e.deviceId # requestedDeviceId
       THEN acc
     ELSE IF isStale(m, e)
       THEN [acc EXCEPT !.idsToDelete = Append(@, id)]
     ELSE LET counted == [acc EXCEPT !.resources =
                            MapSet(@, e.category,
                                   (IF MapHas(@, e.category) THEN @[e.category] ELSE 0) + 1)]
              truthy == e.size.isFn \/ e.size.bytes # 0
              numBytes == IF e.size.isFn THEN callSize(e.size, webgpuObject)
                          ELSE e.size.bytes
          IN IF ~truthy THEN counted
             ELSE [counted EXCEPT !.memory =
                     IF MapHas(@, e.category)
                       THEN [@ EXCEPT !["total"] = @ + numBytes,
                                      ![e.category] = @ + numBytes]
                       ELSE MapSet([@ EXCEPT !["total"] = @ + numBytes],
                                   e.category, "NaN")]

\* visitEntry without line 125: the bytes go to the category's counter alone
visitEntryCategoryOnly(m, requestedDeviceId, acc, id) ==
  LET e == m.objects[id]
      webgpuObject == deref(e.ref)
  IN IF isStale(m, e)
       THEN [acc EXCEPT !.idsToDelete = Append(@, id)]
     ELSE IF requestedDeviceId = Undefined \/ e.deviceId = requestedDeviceId
       THEN LET counted == [acc EXCEPT !.resources =
                              MapSet(@, e.category,
                                     (IF MapHas(@, e.category) THEN @[e.category] ELSE 0) + 1)]
                \* `if (size)`: a function is truthy, a number is truthy unless 0
                truthy == e.size.isFn \/ e.size.bytes # 0
                numBytes == IF e.size.isFn THEN callSize(e.size, webgpuObject)
                            ELSE e.size.bytes
            IN IF ~truthy THEN counted
               ELSE [counted EXCEPT !.memory =
                       IF MapHas(@, e.category)
                         THEN [@ EXCEPT ![e.category] = @ + numBytes]
                         \* undefined + numBytes
                         ELSE MapSet([@ EXCEPT !["total"] = @ + numBytes],
                                     e.category, "NaN")]
     ELSE acc

\* The body of the for loop of getWebGPUMemoryUsage (lines 116-129) for entry id;
\* acc holds memory, resources and idsToDelete.
visitEntry(m, requestedDeviceId, acc, id) ==
  LET e == m.objects[id]
      webgpuObject == deref(e.ref)
  IN IF isStale(m, e)
       THEN [acc EXCEPT !.idsToDelete = Append(@, id)]
     ELSE IF requestedDeviceId = Undefined \/ e.deviceId = requestedDeviceId
       THEN LET counted == [acc EXCEPT !.resources =
                              MapSet(@, e.category,
                                     (IF MapHas(@, e.category) THEN @[e.category] ELSE 0) + 1)]
                \* `if (size)`: a function is truthy, a number is truthy unless 0
                truthy == e.size.isFn \/ e.size.bytes # 0
                numBytes == IF e.size.isFn THEN callSize(e.size, webgpuObject)
                            ELSE e.size.bytes
            IN IF ~truthy THEN counted
               ELSE [counted EXCEPT !.memory =
                       IF MapHas(@, e.category)
                         THEN [@ EXCEPT !["total"] = @ + numBytes,
                                        ![e.category] = @ + numBytes]
                         \* undefined + numBytes
                         ELSE MapSet([@ EXCEPT !["total"] = @ + numBytes],
                                     e.category, "NaN")]
     ELSE acc

RECURSIVE walkEntries(_, _, _, _)
walkEntries(m, requestedDeviceId, acc, ids) ==
  IF ids = <<>> THEN acc
  ELSE walkEntries(m, requestedDeviceId,
                   visitEntry(m, requestedDeviceId, acc, Head(ids)), Tail(ids))

\* idsToDelete.forEach(freeObjectById)
RECURSIVE freeAll(_, _)
freeAll(m, ids) ==
  IF ids = <<>> THEN m ELSE freeAll(freeObjectById(m, Head(ids)), Tail(ids))

\* getWebGPUMemoryUsage that counts the entries of every device, whatever
\* device it is given
getWebGPUMemoryUsageOfAll(m, device) ==
  LET acc == walkEntries(m, Undefined,
                         [memory |-> [c \in {"total", "buffer", "texture", "querySet",
                                              "canvas"} |-> 0],
                          resources |-> [c \in {"buffer", "texture"} |-> 0],
                          idsToDelete |-> <<>>, deleted |-> EmptyMap],
                         Ascending(DOMAIN m.objects))
  IN [info |-> [memory |-> acc.memory, resources |-> acc.resources],
      idsToDelete |-> acc.idsToDelete,
      m |-> freeAll(m, acc.idsToDelete)]

\* getWebGPUMemoryUsage(device?): device = NoObject when the argument is omitted.
\* Yields the returned info and the tracker after the call.
getWebGPUMemoryUsage(m, device) ==
  LET memory == [c \in {"total", "buffer", "texture", "querySet", "canvas"} |-> 0]
      resources == [c \in {"buffer", "texture"} |-> 0]
      requestedDeviceId == IF device = NoObject THEN Undefined
                           ELSE getIdOfObject(m, device)
      acc == walkEntries(m, requestedDeviceId,
                         [memory |-> memory, resources |-> resources,
                          idsToDelete |-> <<>>, deleted |-> EmptyMap],
                         Ascending(DOMAIN m.objects))
  IN [info |-> [memory |-> acc.memory, resources |-> acc.resources],
      idsToDelete |-> acc.idsToDelete,
      m |-> freeAll(m, acc.idsToDelete)]

\* ------------------------------------------------------------ hooks
addBuffer(m, device, buffer, bufferSize) ==
  addDeviceMem(m, device, buffer, "buffer", FixedSize(bufferSize))

removeBuffer(m, buffer) == freeObject(m, buffer)

addTexture(m, device, texture, descriptor) ==
  addDeviceMem(m, device, texture, "texture",
               FixedSize(computeTextureMemorySize(descriptor)))

removeTexture(m, texture) == freeObject(m, texture)

addQuerySet(m, device, querySet, count) ==
  addDeviceMem(m, device, querySet, "querySet", FixedSize(count * 8))

removeQuerySet(m, querySet) == freeObject(m, querySet)

addContext(m, context, config) ==
  addDeviceMem(freeObject(m, context), config.device, context, "canvas",
               CanvasSizeFn(config.format))

removeContext(m, context) == freeObject(m, context)

\* A creation hook that registers 8 bytes for every object
creationHookEightBytes(m, device, object, category) ==
  addDeviceObject(m, device, object, category, FixedSize(8))

\* The creation hook installed by wrapCreationDestroy (lines 280-282)
creationHook(m, device, object, category) ==
  addDeviceObject(m, device, object, category, FixedSize(0))

\* The destroy hook installed by wrapCreationDestroy (lines 283-287), installed
\* only when objectClass.prototype.destroy exists
destroyHook(m, object) == freeObject(m, object)

\* ------------------------------------------------------------ wrappers
\* What the function a wrapper replaced does when it is called: it returns
\* (an object, or undefined for destroy, configure and unconfigure) or throws.
Returns(o) == [threw |-> FALSE, result |-> o]
Throws == [threw |-> TRUE, result |-> NoObject]

\* One function call as the wrappers record it
Event(fn, this) == [fn |-> fn, this |-> this]

\* origFn.call(this, ...args) for the browser's own function (line 185 of the
\* innermost wrapper): the tracker is not touched.
origFn(m, this, outcome) ==
  [m |-> m, threw |-> outcome.threw, result |-> outcome.result,
   events |-> <<Event("origFn", this)>>]

\* wrapFunction that catches what origFn throws and returns undefined
wrapFunctionSwallows(inner, this, hooked, fn) ==
  IF inner.threw THEN [inner EXCEPT !.threw = FALSE]
  ELSE [inner EXCEPT !.m = hooked, !.events = Append(@, Event(fn, this))]

\* The function wrapFunction installs (lines 184-188). `inner` is the call
\* origFn.call(this, ...args) of line 185, which for a function wrapped twice
\* is itself a wrapper's call; `hooked` is the tracker after
\* fn(this, result, ...args) of line 186. A throw at line 185 leaves the
\* function there; otherwise the result of line 185 is returned as it is.
wrapFunction(inner, this, hooked, fn) ==
  IF inner.threw THEN inner
  ELSE [inner EXCEPT !.m = hooked, !.events = Append(@, Event(fn, this))]

\* wrapAsyncFunction whose function returns the result without waiting for the
\* hook to have run
wrapAsyncFunctionUnhooked(inner, this, hooked, fn) == inner

\* The async function wrapAsyncFunction installs (lines 200-204). `inner` is
\* the awaited origFn.call(this, ...args) of line 201, `hooked` the tracker
\* after fn(this, result, ...args) of line 202. When the original's promise
\* rejects, the await throws and the function's promise rejects; otherwise the
\* function's promise resolves, at line 203, after the hook has run.
wrapAsyncFunction(inner, this, hooked, fn) ==
  IF inner.threw THEN inner
  ELSE [inner EXCEPT !.m = hooked, !.events = Append(@, Event(fn, this))]

\* The adapter requestDevice is called on
Adapter == <<"adapter", 0>>

\* GPUAdapter.prototype.requestDevice as wrapped at line 291
requestDevice(m, adapter, outcome) ==
  wrapAsyncFunction(origFn(m, adapter, outcome), adapter,
                    addDevice(m, outcome.result), "addDevice")

\* The wrapped entry points (lines 292-320), as functions of what the
\* original does.
destroyDevice(m, device, outcome) ==
  wrapFunction(origFn(m, device, outcome), device, removeDevice(m, device),
               "removeDevice")

configure(m, context, outcome, config) ==
  wrapFunction(origFn(m, context, outcome), context, addContext(m, context, config),
               "addContext")

unconfigure(m, context, outcome) ==
  wrapFunction(origFn(m, context, outcome), context, removeContext(m, context),
               "removeContext")

createBuffer(m, device, outcome, bufferSize) ==
  wrapFunction(origFn(m, device, outcome), device,
               addBuffer(m, device, outcome.result, bufferSize), "addBuffer")

createTexture(m, device, outcome, descriptor) ==
  wrapFunction(origFn(m, device, outcome), device,
               addTexture(m, device, outcome.result, descriptor), "addTexture")

\* createQuerySet is wrapped at line 301 and the wrapped function is wrapped
\* again at line 320: the hook of line 320 runs after addQuerySet, on the same
\* object.
createQuerySet(m, device, outcome, count) ==
  LET inner == wrapFunction(origFn(m, device, outcome), device,
                            addQuerySet(m, device, outcome.result, count),
                            "addQuerySet")
  IN wrapFunction(inner, device,
                  creationHook(inner.m, device, outcome.result, "querySet"),
                  "creationHook")

\* The entry points wrapped by wrapCreationDestroy alone (lines 304-317)
createUnsized(m, device, outcome, category) ==
  wrapFunction(origFn(m, device, outcome), device,
               creationHook(m, device, outcome.result, category), "creationHook")

\* buffer.destroy(), texture.destroy() (lines 298, 300) and querySet.destroy()
\* (line 302; GPUQuerySet.prototype.destroy is wrapped again at line 320)
destroy(m, object, interface, outcome) ==
  CASE interface = "GPUBuffer" ->
         wrapFunction(origFn(m, object, outcome), object, removeBuffer(m, object),
                      "removeBuffer")
    [] interface = "GPUTexture" ->
         wrapFunction(origFn(m, object, outcome), object, removeTexture(m, object),
                      "removeTexture")
    [] interface = "GPUQuerySet" ->
         LET inner == wrapFunction(origFn(m, object, outcome), object,
                                   removeQuerySet(m, object), "removeQuerySet")
         IN wrapFunction(inner, object, destroyHook(inner.m, object), "destroyHook")

\* ------------------------------------------------------------ environment
\* What the application passes to the wrapped entry points.
BufferSizes == {16}
TextureDescriptors ==
  {[format |-> "rgba8unorm", width |-> 4, height |-> 4, depthOrArrayLayers |-> 1,
    sampleCount |-> 1, mipLevelCount |-> 1, dimension |-> "2d"],
   [format |-> "bc3-rgba-unorm", width |-> 8, height |-> 8, depthOrArrayLayers |-> 1,
    sampleCount |-> 1, mipLevelCount |-> 2, dimension |-> "2d"]}
\* The descriptors the application of Spec passes to createTexture
CoreTextureDescriptors == {t \in TextureDescriptors : t.format = "rgba8unorm"}
QueryCounts == {4}
CanvasFormats == {"rgba8unorm", "rgba16float"}
CanvasSizes == {[width |-> 4, height |-> 4], [width |-> 8, height |-> 4]}
InitialCanvasSize == [width |-> 4, height |-> 4]

\* The entry points wrapped by wrapCreationDestroy (lines 304-317), with the
\* interface of the object each returns. The two ...Async entry points return
\* a Promise; wrapCreationDestroy wraps them with wrapFunction all the same.
UnsizedEntryPoints ==
  {[fn |-> "createSampler", class |-> "GPUSampler", category |-> "sampler"],
   [fn |-> "createBindGroup", class |-> "GPUBindGroup", category |-> "bindGroup"],
   [fn |-> "createBindGroupLayout", class |-> "GPUBindGroupLayout",
    category |-> "bindGroupLayout"],
   [fn |-> "createPipelineLayout", class |-> "GPUPipelineLayout",
    category |-> "pipelineLayout"],
   [fn |-> "createShaderModule", class |-> "GPUShaderModule",
    category |-> "shaderModule"],
   [fn |-> "createComputePipeline", class |-> "GPUComputePipeline",
    category |-> "computePipeline"],
   [fn |-> "createRenderPipeline", class |-> "GPURenderPipeline",
    category |-> "renderPipeline"],
   [fn |-> "createComputePipelineAsync", class |-> "Promise",
    category |-> "computePipeline"],
   [fn |-> "createRenderPipelineAsync", class |-> "Promise",
    category |-> "renderPipeline"]}

\* The entry points the application of Spec calls: one that returns the object
\* and one that returns a Promise. The hook is the same closure for all nine
\* and differs in the category string alone.
CoreEntryPoints ==
  {ep \in UnsizedEntryPoints : ep.fn \in {"createSampler", "createComputePipelineAsync"}}

\* Interfaces with a destroy() method that the module wraps
Destroyable == {"GPUBuffer", "GPUTexture", "GPUQuerySet"}

\* What a call that returns nothing of interest leaves in ret. For a call of
\* getWebGPUMemoryUsage ret holds the argument, the returned info, the local
\* idsToDelete and, per id the call took out of the table, the deviceId of the
\* entry it took out. For a call of a wrapped function ret holds what the
\* call returned, whether it threw instead, and the calls the wrappers made.
NoReturn == [device |-> NoObject, memory |-> EmptyMap, resources |-> EmptyMap,
             idsToDelete |-> <<>>, deleted |-> EmptyMap,
             result |-> NoObject, threw |-> FALSE, events |-> <<>>]

Returned(w) ==
  [NoReturn EXCEPT !.result = w.result, !.threw = w.threw, !.events = w.events]

Call(op, obj) == [op |-> op, obj |-> obj]

\* Objects the tracker's tables reference strongly: none, since every reference
\* stored is a WeakRef and the size closure captures no object.
RegistryStrongRefs ==
  {allWebGPUObjectsById[k].ref.target :
     k \in {x \in DOMAIN allWebGPUObjectsById : ~allWebGPUObjectsById[x].ref.weak}}
  \cup {deviceIdToDeviceWeakRef[k].target :
     k \in {x \in DOMAIN deviceIdToDeviceWeakRef : ~deviceIdToDeviceWeakRef[x].weak}}
  \cup UNION {allWebGPUObjectsById[k].size.captured : k \in DOMAIN allWebGPUObjectsById}

Live(S) == {o \in S : heap[o] = "live"}

\* The object a creating call returns: the unused one with the smallest number
Fresh(S) ==
  {o \in S : heap[o] = "none" /\ \A p \in S : heap[p] = "none" => o[2] <= p[2]}

\* patchWebGPU has just run (lines 29-31): no device has been requested yet
ProbeInit ==
  /\ s_deviceToEitherSamplingIndex = EmptyMap
  /\ probeCalls = <<>>
  /\ gpuObjects = <<>>
  /\ submitted = <<>>

PatchInit ==
  /\ deviceToErrorScopeStack = EmptyMap
  /\ deviceIsCompatSet = {}
  /\ textureToDeviceWeakMap = EmptyMap
  /\ pendingPops = <<>>
  /\ uncapturedErrors = <<>>
  /\ errorsMade = 0
  /\ pushes = [d \in Devices |-> 0]
  /\ pops = [d \in Devices |-> 0]

SetTracker(m) ==
  /\ nextId' = m.nextId
  /\ objId' = m.ids
  /\ allWebGPUObjectsById' = m.objects
  /\ deviceIdToDeviceWeakRef' = m.devices

Init ==
  /\ nextId = 1
  /\ objId = [o \in Objects |-> Undefined]
  /\ allWebGPUObjectsById = EmptyMap
  /\ deviceIdToDeviceWeakRef = EmptyMap
  /\ heap = [o \in Objects |-> IF o \in UntrackedDevices \cup Contexts
                                THEN "live" ELSE "none"]
  /\ class = [o \in Objects |-> IF o \in UntrackedDevices THEN "GPUDevice"
                                 ELSE IF o \in Contexts THEN "GPUCanvasContext"
                                 ELSE "none"]
  /\ destroyed = [d \in Devices |-> FALSE]
  /\ canvas = [c \in Contexts |-> InitialCanvasSize]
  /\ last = Call("init", NoObject)
  /\ ret = NoReturn
  /\ PatchInit
  /\ ProbeInit

\* ------------------------------------------------------------ actions
\* await adapter.requestDevice(): the wrapper of wrapAsyncFunction runs
\* addDevice on the new device before its own promise resolves (lines 200-204).
RequestDevice(d) ==
  LET w == requestDevice(Tracker, Adapter, Returns(d))
  IN /\ nextId <= MaxIds
     /\ SetTracker(w.m)
     /\ heap' = [heap EXCEPT ![d] = "live"]
     /\ class' = [class EXCEPT ![d] = "GPUDevice"]
     /\ last' = Call("requestDevice", d)
     /\ ret' = Returned(w)
     /\ UNCHANGED <<destroyed, canvas>>
     /\ UNCHANGED patchVars
     /\ UNCHANGED probeVars

\* device.destroy() (line 292)
DestroyDevice(d) ==
  LET w == destroyDevice(Tracker, d, Returns(NoObject))
  IN /\ SetTracker(w.m)
     /\ destroyed' = [destroyed EXCEPT ![d] = TRUE]
     /\ last' = Call("GPUDevice.destroy", d)
     /\ ret' = Returned(w)
     /\ UNCHANGED <<heap, class, canvas>>
     /\ UNCHANGED patchVars
     /\ UNCHANGED probeVars

\* What the original creating function does: a new object r of interface cls
Created(d, r, cls) ==
  /\ nextId <= MaxIds
  /\ heap' = [heap EXCEPT ![r] = "live"]
  /\ class' = [class EXCEPT ![r] = cls]
  /\ UNCHANGED <<destroyed, canvas>>
  /\ UNCHANGED patchVars
  /\ UNCHANGED probeVars

\* device.createBuffer(descriptor) (line 297)
CreateBuffer(d, r, bufferSize) ==
  LET w == createBuffer(Tracker, d, Returns(r), bufferSize)
  IN /\ SetTracker(w.m)
     /\ Created(d, r, "GPUBuffer")
     /\ last' = Call("createBuffer", r)
     /\ ret' = Returned(w)

\* device.createTexture(descriptor) (line 299)
CreateTexture(d, r, descriptor) ==
  LET w == createTexture(Tracker, d, Returns(r), descriptor)
  IN /\ SetTracker(w.m)
     /\ Created(d, r, "GPUTexture")
     /\ last' = Call("createTexture", r)
     /\ ret' = Returned(w)

\* device.createQuerySet(descriptor) (lines 301 and 320)
CreateQuerySet(d, r, count) ==
  LET w == createQuerySet(Tracker, d, Returns(r), count)
  IN /\ SetTracker(w.m)
     /\ Created(d, r, "GPUQuerySet")
     /\ last' = Call("createQuerySet", r)
     /\ ret' = Returned(w)

\* The entry points wrapped by wrapCreationDestroy alone (lines 304-317)
CreateUnsized(d, r, ep) ==
  LET w == createUnsized(Tracker, d, Returns(r), ep.category)
  IN /\ SetTracker(w.m)
     /\ Created(d, r, ep.class)
     /\ last' = Call(ep.fn, r)
     /\ ret' = Returned(w)

\* buffer.destroy(), texture.destroy(), querySet.destroy()
DestroyResource(r) ==
  /\ class[r] \in Destroyable
  /\ LET w == destroy(Tracker, r, class[r], Returns(NoObject))
     IN /\ SetTracker(w.m)
        /\ ret' = Returned(w)
  /\ last' = Call("destroy", r)
  /\ UNCHANGED <<heap, class, destroyed, canvas>>
  /\ UNCHANGED patchVars
  /\ UNCHANGED probeVars

\* context.configure({device, format}) (line 294)
Configure(c, d, format) ==
  /\ objId[c] = Undefined => nextId <= MaxIds
  /\ LET w == configure(Tracker, c, Returns(NoObject),
                        [device |-> d, format |-> format])
     IN /\ SetTracker(w.m)
        /\ ret' = Returned(w)
  /\ last' = Call("configure", c)
  /\ UNCHANGED <<heap, class, destroyed, canvas>>
  /\ UNCHANGED patchVars
  /\ UNCHANGED probeVars

\* context.unconfigure() (line 295)
Unconfigure(c) ==
  LET w == unconfigure(Tracker, c, Returns(NoObject))
  IN /\ SetTracker(w.m)
     /\ last' = Call("unconfigure", c)
     /\ ret' = Returned(w)
     /\ UNCHANGED <<heap, class, destroyed, canvas>>
     /\ UNCHANGED patchVars
     /\ UNCHANGED probeVars

\* canvas.width = ..., canvas.height = ...: no wrapped entry point is involved
ResizeCanvas(c, dims) ==
  /\ canvas[c] # dims
  /\ canvas' = [canvas EXCEPT ![c] = dims]
  /\ last' = Call("resize", c)
  /\ ret' = NoReturn
  /\ UNCHANGED <<nextId, objId, allWebGPUObjectsById, deviceIdToDeviceWeakRef,
                 heap, class, destroyed>>
  /\ UNCHANGED patchVars
  /\ UNCHANGED probeVars

\* The application lets go of its last reference to an object and the garbage
\* collector frees it, which it may do only when nothing else references the
\* object strongly. (An object that is unreferenced but not yet collected
\* still derefs, and the tracker cannot tell it from one the application
\* holds and leaves alone; that state is "live" here.) A collected object has
\* no interface and no device any more.
Collectable(o) == heap[o] = "live" /\ o \notin RegistryStrongRefs

Collect(o) ==
  /\ Collectable(o)
  /\ heap' = [heap EXCEPT ![o] = "collected"]
  /\ class' = [class EXCEPT ![o] = "none"]
  /\ last' = Call("collect", o)
  /\ ret' = NoReturn
  /\ UNCHANGED <<nextId, objId, allWebGPUObjectsById, deviceIdToDeviceWeakRef,
                 destroyed, canvas>>
  /\ UNCHANGED patchVars
  /\ UNCHANGED probeVars

\* getWebGPUMemoryUsage() (device = NoObject) and getWebGPUMemoryUsage(device)
Snapshot(device) ==
  LET r == getWebGPUMemoryUsage(Tracker, device)
  IN /\ SetTracker(r.m)
     /\ ret' = [NoReturn EXCEPT
                  !.device = device, !.memory = r.info.memory,
                  !.resources = r.info.resources, !.idsToDelete = r.idsToDelete,
                  !.deleted = [id \in DOMAIN allWebGPUObjectsById \ DOMAIN r.m.objects |->
                                 allWebGPUObjectsById[id].deviceId]]
     /\ last' = Call("getWebGPUMemoryUsage", NoObject)
     /\ UNCHANGED <<heap, class, destroyed, canvas>>
     /\ UNCHANGED patchVars
     /\ UNCHANGED probeVars

\* The application of Spec: it keeps the page's canvas and the device it
\* obtained before the wrappers were installed for as long as it runs; it
\* configures the canvas with that device and asks for its memory usage, and
\* neither destroys it nor creates resources on it.
Next ==
  \/ \E d \in Fresh(TrackedDevices) : RequestDevice(d)
  \/ \E d \in Live(TrackedDevices) : DestroyDevice(d)
  \/ \E d \in Live(TrackedDevices), r \in Fresh(Resources), bufferSize \in BufferSizes :
       CreateBuffer(d, r, bufferSize)
  \/ \E d \in Live(TrackedDevices), r \in Fresh(Resources), t \in CoreTextureDescriptors :
       CreateTexture(d, r, t)
  \/ \E d \in Live(TrackedDevices), r \in Fresh(Resources), count \in QueryCounts :
       CreateQuerySet(d, r, count)
  \/ \E d \in Live(TrackedDevices), r \in Fresh(Resources), ep \in CoreEntryPoints :
       CreateUnsized(d, r, ep)
  \/ \E r \in Live(Resources) : DestroyResource(r)
  \/ \E c \in Live(Contexts), d \in Live(Devices), format \in CanvasFormats :
       Configure(c, d, format)
  \/ \E c \in Live(Contexts) : Unconfigure(c)
  \/ \E o \in TrackedDevices \cup Resources : Collect(o)
  \/ \E device \in {NoObject} \cup Live(Devices) : Snapshot(device)

Spec == Init /\ [][Next]_vars

\* ------------------------------------------------------------ vocabulary
Categories == {"buffer", "texture", "sampler", "bindGroup", "bindGroupLayout",
               "pipelineLayout", "shaderModule", "computePipeline",
               "renderPipeline", "querySet", "canvas"}

\* The count a snapshot reports for category c; a category the snapshot has no
\* counter for reports no resource.
Reported(resources, c) == IF c \in DOMAIN resources THEN resources[c] ELSE 0

\* An entry's object still resolves
ObjectResolves(e) == heap[e.ref.target] = "live"
\* An entry's owning device is registered and resolves
DeviceRegistered(e) ==
  /\ e.deviceId \in DOMAIN deviceIdToDeviceWeakRef
  /\ heap[deviceIdToDeviceWeakRef[e.deviceId].target] = "live"
NotStale(e) == ObjectResolves(e) /\ DeviceRegistered(e)

\* The step is a call of getWebGPUMemoryUsage
SnapshotStep == last'.op = "getWebGPUMemoryUsage"

\* ------------------------------------------------------------ C1
\* C1: a call getWebGPUMemoryUsage() without a device reports, for every
\* category, the number of entries the table holds at the call whose object
\* resolves and whose owning device is registered and resolves; the stale
\* entries of the table, however many, add nothing.
C1_CountsAreLiveEntries ==
  [][(SnapshotStep /\ ret'.device = NoObject) =>
       \A c \in Categories :
         Reported(ret'.resources, c) =
           Cardinality({id \in DOMAIN allWebGPUObjectsById :
                          /\ allWebGPUObjectsById[id].category = c
                          /\ NotStale(allWebGPUObjectsById[id])})]_vars

\* A snapshot without a device has just counted one buffer and has taken the
\* entry of a sampler that is still live out of the table as stale.
C1_Witness ==
  /\ last.op = "getWebGPUMemoryUsage"
  /\ ret.device = NoObject
  /\ Reported(ret.resources, "buffer") = 1
  /\ \E r \in Resources :
       /\ class[r] = "GPUSampler"
       /\ objId[r] \in DOMAIN ret.deleted

\* What getWebGPUMemoryUsage(device) returns for the table without the entries
\* in ids
InfoWithout(ids, device) ==
  getWebGPUMemoryUsage(
    [Tracker EXCEPT !.objects =
       [id \in DOMAIN allWebGPUObjectsById \ ids |-> allWebGPUObjectsById[id]]],
    device).info

\* ------------------------------------------------------------ C2
\* C2: when getWebGPUMemoryUsage is called, every entry whose object has been
\* collected adds nothing to any count or byte total (the call returns what it
\* returns for the table without those entries), and none of them is in the
\* table when the call has returned.
C2_AbandonedObjectsArePurged ==
  [][SnapshotStep =>
       LET gone == {id \in DOMAIN allWebGPUObjectsById :
                      heap[allWebGPUObjectsById[id].ref.target] = "collected"}
           clean == InfoWithout(gone, ret'.device)
       IN /\ gone \cap DOMAIN allWebGPUObjectsById' = {}
          /\ ret'.memory = clean.memory
          /\ ret'.resources = clean.resources]_vars

\* A snapshot has just taken the entry of a collected resource out of the
\* table, while the device that created it is registered and live.
C2_Witness ==
  /\ last.op = "getWebGPUMemoryUsage"
  /\ \E r \in Resources :
       /\ heap[r] = "collected"
       /\ objId[r] \in DOMAIN ret.deleted
       /\ ret.deleted[objId[r]] \in DOMAIN deviceIdToDeviceWeakRef
       /\ heap[deviceIdToDeviceWeakRef[ret.deleted[objId[r]]].target] = "live"

\* ------------------------------------------------------------ C3
\* C3: when getWebGPUMemoryUsage is called, with or without a device, every
\* entry whose owning device has been destroyed adds nothing to any count or
\* byte total and is no longer in the table when the call has returned,
\* whether or not the object and the device are still live.
C3_DestroyedDeviceObjectsExcluded ==
  [][SnapshotStep =>
       LET dead == {id \in DOMAIN allWebGPUObjectsById :
                      \E d \in Devices :
                        /\ destroyed[d]
                        /\ objId[d] = allWebGPUObjectsById[id].deviceId}
           clean == InfoWithout(dead, ret'.device)
       IN /\ dead \cap DOMAIN allWebGPUObjectsById' = {}
          /\ ret'.memory = clean.memory
          /\ ret'.resources = clean.resources]_vars

\* A snapshot asked for one device has just taken out the entry of a live
\* resource of another device, which is live and destroyed.
C3_Witness ==
  /\ last.op = "getWebGPUMemoryUsage"
  /\ ret.device # NoObject
  /\ \E r \in Resources, d \in TrackedDevices :
       /\ heap[r] = "live"
       /\ heap[d] = "live"
       /\ destroyed[d]
       /\ d # ret.device
       /\ objId[r] \in DOMAIN ret.deleted
       /\ ret.deleted[objId[r]] = objId[d]

\* ------------------------------------------------------------ C4
\* C4: every reference the two tables hold is weak and the size closure of a
\* canvas entry captures no object, so every live object that the application
\* lets go of can be collected, whatever the tables contain.
C4_RegistryHoldsNoStrongReference ==
  /\ \A id \in DOMAIN allWebGPUObjectsById :
       /\ allWebGPUObjectsById[id].ref.weak
       /\ allWebGPUObjectsById[id].size.captured = {}
  /\ \A id \in DOMAIN deviceIdToDeviceWeakRef : deviceIdToDeviceWeakRef[id].weak
  /\ \A o \in Objects : heap[o] = "live" => Collectable(o)

\* A configured canvas, a registered live device and a live resource of that
\* device are all in the tables, and each can be collected.
C4_Witness ==
  /\ last.op = "configure"
  /\ \E id \in DOMAIN allWebGPUObjectsById :
       /\ allWebGPUObjectsById[id].ref.target \in Contexts
       /\ allWebGPUObjectsById[id].size.isFn
  /\ \E id \in DOMAIN allWebGPUObjectsById, dv \in DOMAIN deviceIdToDeviceWeakRef :
       /\ allWebGPUObjectsById[id].ref.target \in Resources
       /\ allWebGPUObjectsById[id].deviceId = dv
       /\ Collectable(allWebGPUObjectsById[id].ref.target)
       /\ Collectable(deviceIdToDeviceWeakRef[dv].target)

\* ------------------------------------------------------------ C5
\* C5: a call getWebGPUMemoryUsage(device) returns what it returns for the
\* table without the entries whose owning-device id is not the id of `device`:
\* no entry of another device adds to a count or a byte total.
C5_FilterExcludesOtherDevices ==
  [][(SnapshotStep /\ ret'.device # NoObject) =>
       LET others == {id \in DOMAIN allWebGPUObjectsById :
                        allWebGPUObjectsById[id].deviceId # objId[ret'.device]}
           clean == InfoWithout(others, ret'.device)
       IN /\ ret'.memory = clean.memory
          /\ ret'.resources = clean.resources]_vars

\* ------------------------------------------------------------ C6
\* C6: a call getWebGPUMemoryUsage(device) for a device that owns no live
\* entry (no entry with that device's id whose object resolves and whose
\* device is registered and resolves) returns zero for memory.total and for
\* every counter.
C6_DeviceWithoutResourcesReportsZero ==
  [][(/\ SnapshotStep
      /\ ret'.device # NoObject
      /\ ~\E id \in DOMAIN allWebGPUObjectsById :
            /\ allWebGPUObjectsById[id].deviceId = objId[ret'.device]
            /\ NotStale(allWebGPUObjectsById[id]))
     => /\ \A k \in DOMAIN ret'.memory : ret'.memory[k] = 0
        /\ \A c \in Categories : Reported(ret'.resources, c) = 0]_vars

\* ------------------------------------------------------------ C7
\* C7: after context.configure({device, format}) the table holds exactly one
\* entry that refers to the context, under the context's id, with the id of
\* `device` as owning device and a size function for `format`, however often
\* and with whatever the context was configured before; and a snapshot never
\* counts more canvases than there are contexts.
C7_ConfigureLeavesOneEntry ==
  [][/\ \A c \in Contexts, d \in Devices, format \in CanvasFormats :
          Configure(c, d, format) =>
            LET mine == {id \in DOMAIN allWebGPUObjectsById' :
                           allWebGPUObjectsById'[id].ref.target = c}
            IN /\ mine = {objId'[c]}
               /\ objId'[c] # Undefined
               /\ allWebGPUObjectsById'[objId'[c]].deviceId = objId[d]
               /\ allWebGPUObjectsById'[objId'[c]].category = "canvas"
               /\ allWebGPUObjectsById'[objId'[c]].size = CanvasSizeFn(format)
     /\ SnapshotStep =>
          Reported(ret'.resources, "canvas") <= Cardinality(Contexts)]_vars

\* The context was given its id before the device of its present
\* configuration was obtained: it has been configured again, with a device
\* other than the first.
C7_Witness ==
  /\ last.op = "configure"
  /\ last.obj \in Contexts
  /\ objId[last.obj] \in DOMAIN allWebGPUObjectsById
  /\ allWebGPUObjectsById[objId[last.obj]].deviceId > objId[last.obj]
  /\ allWebGPUObjectsById[objId[last.obj]].size.format = "rgba16float"

\* ------------------------------------------------------------ C8
\* C8: destroy() or unconfigure() on an object whose id is not a key of the
\* table (it has none, or its entry is gone already) changes neither table,
\* nor the counter, nor any object's id.
C8_UnregisterAbsentIsNoOp ==
  [][/\ \A r \in Resources :
          (DestroyResource(r) /\ objId[r] \notin DOMAIN allWebGPUObjectsById) =>
            UNCHANGED <<allWebGPUObjectsById, deviceIdToDeviceWeakRef, nextId, objId>>
     /\ \A c \in Contexts :
          (Unconfigure(c) /\ objId[c] \notin DOMAIN allWebGPUObjectsById) =>
            UNCHANGED <<allWebGPUObjectsById, deviceIdToDeviceWeakRef, nextId, objId>>]_vars

\* unconfigure() has just been called on a context that never got an id, while
\* the table holds the entry of a resource.
C8_Witness ==
  /\ last.op = "unconfigure"
  /\ objId[last.obj] = Undefined
  /\ \E id \in DOMAIN allWebGPUObjectsById :
       allWebGPUObjectsById[id].ref.target \in Resources

\* ------------------------------------------------------------ C9
\* C9: ids come from one counter that starts at 1 and only grows; an object
\* that has an id keeps it; an id given out in a step is at least the counter
\* before the step and below the counter after it; and no two objects, device
\* or resource, have the same id.
C9_IdentitiesAreUnique ==
  [][/\ nextId' >= nextId
     /\ nextId >= 1
     /\ \A o \in Objects :
          /\ objId[o] # Undefined => objId'[o] = objId[o]
          /\ (objId[o] = Undefined /\ objId'[o] # Undefined) =>
               (nextId <= objId'[o] /\ objId'[o] < nextId')
     /\ \A o, p \in Objects :
          (o # p /\ objId'[o] # Undefined) => objId'[o] # objId'[p]
     /\ \A id \in DOMAIN allWebGPUObjectsById' \cup DOMAIN deviceIdToDeviceWeakRef' :
          1 <= id /\ id < nextId']_vars

\* A context that got its id first has been configured again after a device
\* and a resource got theirs.
C9_Witness ==
  /\ last.op = "configure"
  /\ objId[last.obj] = 1
  /\ \E d \in TrackedDevices, r \in Resources :
       /\ objId[d] > 1
       /\ objId[r] > objId[d]
       /\ objId[last.obj] \in DOMAIN allWebGPUObjectsById
       /\ allWebGPUObjectsById[objId[last.obj]].deviceId = objId[d]

\* ------------------------------------------------------------ C10
\* C10: whenever a step creates or replaces a table entry, the entry's
\* owning-device id is a key of the device table and that device resolves.
C10_EntryCreatedForLiveDevice ==
  [][\A id \in DOMAIN allWebGPUObjectsById' :
       (id \notin DOMAIN allWebGPUObjectsById
          \/ allWebGPUObjectsById'[id] # allWebGPUObjectsById[id]) =>
         /\ allWebGPUObjectsById'[id].deviceId \in DOMAIN deviceIdToDeviceWeakRef'
         /\ heap'[deviceIdToDeviceWeakRef'[allWebGPUObjectsById'[id].deviceId].target]
              = "live"]_vars

\* ------------------------------------------------------------ C11
\* C11: every query set that a snapshot without a device counts was created
\* with a count of QueryCounts and adds 8 bytes per query to memory.querySet;
\* the other sized categories add to memory.total what they add to their own
\* counter, so memory.total holds the query sets' bytes on top of theirs.
C11_QuerySetContributesEightPerQuery ==
  [][(SnapshotStep /\ ret'.device = NoObject) =>
       \A count \in QueryCounts :
         LET bytes == 8 * count * Reported(ret'.resources, "querySet")
         IN /\ ret'.memory["querySet"] = bytes
            /\ ret'.memory["total"] =
                 ret'.memory["buffer"] + ret'.memory["texture"]
                   + ret'.memory["canvas"] + bytes]_vars

\* ------------------------------------------------------------ texture sizes
\* The textures computeTextureMemorySize is applied to: every format of the
\* table, widths and heights below, at and above a block edge, with and
\* without array layers (or depth), multisampling and a mip chain.
TextureWidths == {1, 2, 4, 5, 8}
TextureHeights == {1, 4, 8}
TextureLayers == {1, 3}
TextureSampleCounts == {1, 4}
TextureMipLevelCounts == {1, 2, 3}
TextureDimensions == {"1d", "2d", "3d"}
TextureInputs ==
  [format : DOMAIN kTextureFormatInfo, width : TextureWidths,
   height : TextureHeights, depthOrArrayLayers : TextureLayers,
   sampleCount : TextureSampleCounts, mipLevelCount : TextureMipLevelCounts,
   dimension : TextureDimensions]

\* computeTextureMemorySize(texture), called on its own, once per behaviour:
\* the function reads and writes no state, so a second call adds nothing
ComputeTextureMemorySize(texture) ==
  /\ last.op = "init"
  /\ last' = Call("computeTextureMemorySize", texture)
  /\ ret' = [NoReturn EXCEPT !.result = computeTextureMemorySize(texture)]
  /\ UNCHANGED <<nextId, objId, allWebGPUObjectsById, deviceIdToDeviceWeakRef,
                 heap, class, destroyed, canvas>>
  /\ UNCHANGED patchVars
  /\ UNCHANGED probeVars

NextTexture == \E texture \in TextureInputs : ComputeTextureMemorySize(texture)

SpecTexture == Init /\ [][NextTexture]_vars

\* The last call was computeTextureMemorySize
TextureCall == last.op = "computeTextureMemorySize"

\* ceil(a / b) by quotient and remainder
CeilQuot(a, b) == IF a % b = 0 THEN a \div b ELSE a \div b + 1

\* ceil(width * sampleCount / blockWidth) * ceil(height * sampleCount /
\* blockHeight) * bytesPerBlock for a width and a height
LevelBytes(format, width, height, sampleCount) ==
  CeilQuot(width * sampleCount, kTextureFormatInfo[format].blockWidth)
    * CeilQuot(height * sampleCount, kTextureFormatInfo[format].blockHeight)
    * kTextureFormatInfo[format].bytesPerBlock

\* The sum of term(0), ..., term(n - 1)
RECURSIVE SumLevels(_, _)
SumLevels(term(_), n) == IF n = 0 THEN 0 ELSE SumLevels(term, n - 1) + term(n - 1)

\* ------------------------------------------------------------ C12
\* C12: computeTextureMemorySize(texture) is the sum, over the mipLevelCount
\* levels, of ceil(width * sampleCount / blockWidth) * ceil(height *
\* sampleCount / blockHeight) * bytesPerBlock for the texture's width and
\* height, times depthOrArrayLayers unless the texture is 3d; for one level,
\* one layer, one sample and 4x4 blocks of B bytes that is
\* ceil(W / 4) * ceil(H / 4) * B, and 64 for W = H = 8 and B = 16.
C12_TextureSizeIsLayersTimesLevelSum ==
  TextureCall =>
    LET t == last.obj
        layers == IF t.dimension = "3d" THEN 1 ELSE t.depthOrArrayLayers
        term(level) == LevelBytes(t.format, t.width, t.height, t.sampleCount)
    IN /\ ret.result = layers * SumLevels(term, t.mipLevelCount)
       /\ (/\ t.mipLevelCount = 1
           /\ layers = 1
           /\ t.sampleCount = 1
           /\ kTextureFormatInfo[t.format].blockWidth = 4
           /\ kTextureFormatInfo[t.format].blockHeight = 4)
          => ret.result = CeilQuot(t.width, 4) * CeilQuot(t.height, 4)
                            * kTextureFormatInfo[t.format].bytesPerBlock
       /\ t = [format |-> "bc3-rgba-unorm", width |-> 8, height |-> 8,
               depthOrArrayLayers |-> 1, sampleCount |-> 1, mipLevelCount |-> 1,
               dimension |-> "2d"]
          => ret.result = 64

\* The size of an 8x8 texture of 16-byte 4x4 blocks, with one level, one layer
\* and one sample, has been computed.
C12_Witness ==
  /\ TextureCall
  /\ last.obj.format = "bc3-rgba-unorm"
  /\ last.obj.width = 8
  /\ last.obj.height = 8
  /\ last.obj.mipLevelCount = 1
  /\ last.obj.sampleCount = 1
  /\ last.obj.dimension = "2d"
  /\ last.obj.depthOrArrayLayers = 1
  /\ ret.result = 64

\* ------------------------------------------------------------ the page
\* A page that uses every wrapped entry point: it resizes its canvas, passes
\* every texture descriptor, calls every factory function, and some of its
\* calls are rejected by the browser's own function, which throws.

\* A call whose original threw: the exception passes through the wrapper to
\* the caller, no object was made
Thrown(w, fn, this) ==
  /\ SetTracker(w.m)
  /\ last' = Call(fn, this)
  /\ ret' = Returned(w)
  /\ UNCHANGED <<heap, class, destroyed, canvas>>
  /\ UNCHANGED patchVars
  /\ UNCHANGED probeVars

\* device.createBuffer(descriptor) with a descriptor createBuffer throws on
CreateBufferThrows(d, bufferSize) ==
  Thrown(createBuffer(Tracker, d, Throws, bufferSize), "createBuffer", d)

\* device.createQuerySet(descriptor) with a descriptor createQuerySet throws on
CreateQuerySetThrows(d, count) ==
  Thrown(createQuerySet(Tracker, d, Throws, count), "createQuerySet", d)

\* A factory function wrapped by wrapCreationDestroy that throws
CreateUnsizedThrows(d, ep) ==
  Thrown(createUnsized(Tracker, d, Throws, ep.category), ep.fn, d)

\* context.configure(configuration) with a configuration configure throws on
ConfigureThrows(c, d, format) ==
  Thrown(configure(Tracker, c, Throws, [device |-> d, format |-> format]),
         "configure", c)

\* adapter.requestDevice() is called: the wrapper calls the original and waits
\* at line 201. The page has no device yet and goes on with other things.
RequestDeviceCalled(d) ==
  /\ nextId <= MaxIds
  /\ heap' = [heap EXCEPT ![d] = "requested"]
  /\ last' = Call("requestDevice", NoObject)
  /\ ret' = NoReturn
  /\ UNCHANGED <<nextId, objId, allWebGPUObjectsById, deviceIdToDeviceWeakRef,
                 class, destroyed, canvas>>
  /\ UNCHANGED patchVars
  /\ UNCHANGED probeVars

\* The original's promise settles and the wrapper runs on from line 201: when
\* it resolved, with device d, the page gets d when the wrapper's promise
\* resolves; when it rejected there is no device.
RequestDeviceSettles(d, outcome) ==
  LET w == requestDevice(Tracker, Adapter, outcome)
  IN /\ heap[d] = "requested"
     /\ SetTracker(w.m)
     /\ heap' = [heap EXCEPT ![d] = IF w.threw THEN "none" ELSE "live"]
     /\ class' = [class EXCEPT ![d] = IF w.threw THEN "none" ELSE "GPUDevice"]
     /\ last' = Call("requestDevice settles", d)
     /\ ret' = Returned(w)
     /\ UNCHANGED <<destroyed, canvas>>
     /\ UNCHANGED patchVars
     /\ UNCHANGED probeVars

\* The device the page requests and the resource it creates
PageDevices == {<<"dev", 1>>}
PageResources == {<<"res", 1>>}

NextPage ==
  \/ \E d \in Fresh(PageDevices) : RequestDeviceCalled(d)
  \/ \E d \in PageDevices : \E outcome \in {Returns(d), Throws} :
       RequestDeviceSettles(d, outcome)
  \/ \E d \in Live(PageDevices) : DestroyDevice(d)
  \/ \E d \in Live(PageDevices), r \in Fresh(PageResources), bufferSize \in BufferSizes :
       CreateBuffer(d, r, bufferSize)
  \/ \E d \in Live(PageDevices), r \in Fresh(PageResources), t \in TextureDescriptors :
       CreateTexture(d, r, t)
  \/ \E d \in Live(PageDevices), r \in Fresh(PageResources), count \in QueryCounts :
       CreateQuerySet(d, r, count)
  \/ \E d \in Live(PageDevices), r \in Fresh(PageResources), ep \in UnsizedEntryPoints :
       CreateUnsized(d, r, ep)
  \/ \E r \in Live(PageResources) : DestroyResource(r)
  \/ \E c \in Live(Contexts), d \in Live(PageDevices \cup UntrackedDevices),
        format \in CanvasFormats :
       Configure(c, d, format)
  \/ \E c \in Live(Contexts) : Unconfigure(c)
  \/ \E c \in Live(Contexts), dims \in CanvasSizes : ResizeCanvas(c, dims)
  \/ \E o \in PageDevices \cup PageResources : Collect(o)
  \/ \E device \in {NoObject} \cup Live(PageDevices \cup UntrackedDevices) :
       Snapshot(device)
  \/ \E d \in Live(PageDevices), bufferSize \in BufferSizes :
       CreateBufferThrows(d, bufferSize)
  \/ \E d \in Live(PageDevices), count \in QueryCounts : CreateQuerySetThrows(d, count)
  \/ \E d \in Live(PageDevices), ep \in UnsizedEntryPoints : CreateUnsizedThrows(d, ep)
  \/ \E c \in Live(Contexts), d \in Live(PageDevices \cup UntrackedDevices),
        format \in CanvasFormats :
       ConfigureThrows(c, d, format)

SpecPage == Init /\ [][NextPage]_vars

\* The sum of term(x) over the elements x of a finite set
RECURSIVE SumOver(_, _)
SumOver(term(_), S) ==
  IF S = {} THEN 0
  ELSE LET x == CHOOSE y \in S : TRUE IN term(x) + SumOver(term, S \ {x})

\* The ids of the entries a call getWebGPUMemoryUsage(device) counts: those
\* that are not stale and pass the test of line 120
CountedIds(device) ==
  {id \in DOMAIN allWebGPUObjectsById :
     /\ NotStale(allWebGPUObjectsById[id])
     /\ \/ device = NoObject
        \/ objId[device] = Undefined
        \/ allWebGPUObjectsById[id].deviceId = objId[device]}

\* ------------------------------------------------------------ C13
\* C13: a snapshot reports for every canvas context it counts 2 times the
\* bytes of one level, one layer and one sample of the width and height the
\* canvas has when the snapshot is taken, in the format of the context's
\* entry (that of its last configure); memory.total holds these bytes on top
\* of the other categories'; and resizing the canvas changes no entry.
C13_CanvasSizedAtSnapshot ==
  [][/\ SnapshotStep =>
          LET counted == {c \in Contexts : objId[c] \in CountedIds(ret'.device)}
              bytes(c) == 2 * LevelBytes(allWebGPUObjectsById[objId[c]].size.format,
                                         canvas[c].width, canvas[c].height, 1)
          IN /\ ret'.memory["canvas"] = SumOver(bytes, counted)
             /\ ret'.memory["total"] =
                  ret'.memory["buffer"] + ret'.memory["texture"]
                    + ret'.memory["querySet"] + SumOver(bytes, counted)
     /\ \A c \in Contexts, dims \in CanvasSizes :
          ResizeCanvas(c, dims) => UNCHANGED allWebGPUObjectsById]_vars

\* A snapshot has just counted a canvas of 16-bit float pixels that is not of
\* the size it had when the page was loaded: 2 * 8 * 4 * 8 bytes.
C13_Witness ==
  /\ last.op = "getWebGPUMemoryUsage"
  /\ \E c \in Contexts :
       /\ canvas[c] = [width |-> 8, height |-> 4]
       /\ canvas[c] # InitialCanvasSize
       /\ objId[c] \in DOMAIN allWebGPUObjectsById
       /\ allWebGPUObjectsById[objId[c]].size.format = "rgba16float"
  /\ ret.memory["canvas"] = 512
  /\ ret.memory["total"] >= 512

\* ------------------------------------------------------------ C14
\* C14: in every snapshot each memory counter of a category is the sum of the
\* sizes of the counted entries of that category (the number, or the size
\* function applied to the object), memory.total is the sum of the sizes of
\* all counted entries, and so memory.total is the sum of the other counters.
C14_TotalIsSumOfCategories ==
  [][SnapshotStep =>
       LET counted == CountedIds(ret'.device)
           size(id) == IF allWebGPUObjectsById[id].size.isFn
                         THEN callSize(allWebGPUObjectsById[id].size,
                                       allWebGPUObjectsById[id].ref.target)
                         ELSE allWebGPUObjectsById[id].size.bytes
           counter(k) == ret'.memory[k]
       IN /\ \A k \in DOMAIN ret'.memory \ {"total"} :
               ret'.memory[k] =
                 SumOver(size, {id \in counted : allWebGPUObjectsById[id].category = k})
          /\ ret'.memory["total"] = SumOver(size, counted)
          /\ ret'.memory["total"] = SumOver(counter, DOMAIN ret'.memory \ {"total"})]_vars

\* A snapshot has just counted a buffer and a canvas: two counters are not
\* zero and memory.total is their sum.
C14_Witness ==
  /\ last.op = "getWebGPUMemoryUsage"
  /\ ret.memory["buffer"] = 16
  /\ ret.memory["canvas"] > 0
  /\ ret.memory["total"] = 16 + ret.memory["canvas"]

\* The entries of the table that refer to object o
EntriesOf(table, o) == {id \in DOMAIN table : table[id].ref.target = o}

\* ------------------------------------------------------------ C15
\* C15: when destroy() or unconfigure() returns, the table holds no entry for
\* the object; a buffer, texture or query set that has lost its entry never
\* gets one again, and a context gets one only by configure; and a snapshot
\* counts nothing but entries of the table, so it counts no object that was
\* torn down, whether or not the object and its device are still live.
C15_TeardownRemovesEntry ==
  [][/\ \A r \in Resources :
          /\ DestroyResource(r) => EntriesOf(allWebGPUObjectsById', r) = {}
          /\ (objId[r] # Undefined /\ EntriesOf(allWebGPUObjectsById, r) = {})
               => EntriesOf(allWebGPUObjectsById', r) = {}
     /\ \A c \in Contexts :
          /\ Unconfigure(c) => EntriesOf(allWebGPUObjectsById', c) = {}
          /\ (EntriesOf(allWebGPUObjectsById, c) = {} /\ last'.op # "configure")
               => EntriesOf(allWebGPUObjectsById', c) = {}
     /\ SnapshotStep =>
          LET count(c) == Reported(ret'.resources, c)
          IN SumOver(count, Categories \cup DOMAIN ret'.resources)
               = Cardinality(CountedIds(ret'.device))]_vars

\* A snapshot has just been taken in which no buffer is counted, while a
\* buffer that was registered is live and the device, which was never
\* destroyed, is live and registered: the entry was never stale, so it is
\* destroy() that took it out.
C15_Witness ==
  /\ last.op = "getWebGPUMemoryUsage"
  /\ ret.device = NoObject
  /\ \A d \in PageDevices :
       /\ heap[d] = "live"
       /\ ~destroyed[d]
       /\ objId[d] \in DOMAIN deviceIdToDeviceWeakRef
  /\ \E r \in PageResources :
       /\ heap[r] = "live"
       /\ class[r] = "GPUBuffer"
       /\ objId[r] # Undefined
       /\ EntriesOf(allWebGPUObjectsById, r) = {}
       /\ objId[r] \notin DOMAIN ret.deleted
  /\ Reported(ret.resources, "buffer") = 0

\* ------------------------------------------------------------ C16
\* C16: the object a snapshot returns has a resource counter for every
\* category and a memory counter for every category and for the total, and a
\* counter is 0 when the snapshot counts no entry of its category.
C16_EveryCategoryHasCounters ==
  [][SnapshotStep =>
       /\ Categories \subseteq DOMAIN ret'.resources
       /\ Categories \cup {"total"} \subseteq DOMAIN ret'.memory
       /\ \A c \in Categories :
            {id \in CountedIds(ret'.device) : allWebGPUObjectsById[id].category = c} = {}
              => (ret'.resources[c] = 0 /\ ret'.memory[c] = 0)]_vars

\* ------------------------------------------------------------ C17
\* C17: a call of getWebGPUMemoryUsage, with or without a device, takes out of
\* the table the entries that are stale at the call (object collected, or
\* owning device not registered or collected), whichever device owns them, and
\* those only: idsToDelete holds each of them once, and every other entry,
\* counted or not, is in the table afterwards as it was before.
C17_SnapshotRemovesExactlyStale ==
  [][SnapshotStep =>
       LET stale == {id \in DOMAIN allWebGPUObjectsById :
                       ~NotStale(allWebGPUObjectsById[id])}
       IN /\ DOMAIN allWebGPUObjectsById' = DOMAIN allWebGPUObjectsById \ stale
          /\ \A id \in DOMAIN allWebGPUObjectsById' :
               allWebGPUObjectsById'[id] = allWebGPUObjectsById[id]
          /\ {ret'.idsToDelete[i] : i \in DOMAIN ret'.idsToDelete} = stale
          /\ Len(ret'.idsToDelete) = Cardinality(stale)
          /\ UNCHANGED <<deviceIdToDeviceWeakRef, nextId, objId>>]_vars

\* A snapshot asked for one device has just taken out a stale entry of
\* another device and has left in the table an entry of that other device
\* that is not stale, which it did not count.
C17_Witness ==
  /\ last.op = "getWebGPUMemoryUsage"
  /\ ret.device # NoObject
  /\ objId[ret.device] # Undefined
  /\ \E gone \in DOMAIN ret.deleted, kept \in DOMAIN allWebGPUObjectsById :
       /\ ret.deleted[gone] # objId[ret.device]
       /\ ret.deleted[gone] # Undefined
       /\ allWebGPUObjectsById[kept].deviceId = ret.deleted[gone]
       /\ NotStale(allWebGPUObjectsById[kept])
  /\ \A c \in Categories : Reported(ret.resources, c) = 0

\* ------------------------------------------------------------ C18
\* C18: a texture with more than one mip level whose level 0 spans more than
\* one block takes fewer bytes than mipLevelCount times the bytes of its
\* level 0, the levels after the first being counted at halved widths and
\* heights.
C18_MipChainSmallerThanLevelZeroTimesLevels ==
  (/\ TextureCall
   /\ last.obj.mipLevelCount > 1
   /\ CeilQuot(last.obj.width * last.obj.sampleCount,
               kTextureFormatInfo[last.obj.format].blockWidth)
        * CeilQuot(last.obj.height * last.obj.sampleCount,
                   kTextureFormatInfo[last.obj.format].blockHeight) > 1)
  => ret.result <
       last.obj.mipLevelCount
         * computeTextureMemorySize([last.obj EXCEPT !.mipLevelCount = 1])

\* ------------------------------------------------------------ C19
\* C19: computeTextureMemorySize of a texture with n mip levels is n times
\* that of the same texture with one level, every level adding the bytes of
\* level 0; and that of a 3d texture is the same for every depthOrArrayLayers.
C19_EveryLevelCountsAsLevelZero ==
  TextureCall =>
    /\ ret.result =
         last.obj.mipLevelCount
           * computeTextureMemorySize([last.obj EXCEPT !.mipLevelCount = 1])
    /\ \A level \in 1..last.obj.mipLevelCount :
         computeTextureMemorySize([last.obj EXCEPT !.mipLevelCount = level])
           - computeTextureMemorySize([last.obj EXCEPT !.mipLevelCount = level - 1])
         = computeTextureMemorySize([last.obj EXCEPT !.mipLevelCount = 1])
    /\ last.obj.dimension = "3d" =>
         \A depth \in TextureLayers :
           ret.result = computeTextureMemorySize([last.obj EXCEPT !.depthOrArrayLayers = depth])

\* The size of a 3d texture with three levels and a depth of 3, whose level 0
\* is two blocks wide and two high, has been computed: 3 * 4 * 16 bytes.
C19_Witness ==
  /\ TextureCall
  /\ last.obj.format = "bc3-rgba-unorm"
  /\ last.obj.width = 8
  /\ last.obj.height = 8
  /\ last.obj.sampleCount = 1
  /\ last.obj.mipLevelCount = 3
  /\ last.obj.dimension = "3d"
  /\ last.obj.depthOrArrayLayers = 3
  /\ ret.result = 192

\* The functions wrapped with wrapFunction, by the name the model gives a call
CreationCalls ==
  {"createBuffer", "createTexture", "createQuerySet"}
    \cup {ep.fn : ep \in UnsizedEntryPoints}
WrappedSyncCalls ==
  CreationCalls \cup {"GPUDevice.destroy", "destroy", "configure", "unconfigure"}

\* ------------------------------------------------------------ C20
\* C20: a call of a function wrapped with wrapFunction calls the original
\* once, first, on the receiver of the call; when the original returns, the
\* hooks run after it on the same receiver (and with the same arguments: the
\* entry they make has the size and the device of the call) and the call
\* returns what the original returned; when the original throws, the call
\* throws, no hook runs, and neither table, nor the counter, nor any id
\* changes.
C20_WrapperCallsOriginalThenHook ==
  [][/\ last'.op \in WrappedSyncCalls =>
          LET ev == ret'.events
          IN /\ {i \in DOMAIN ev : ev[i].fn = "origFn"} = {1}
             /\ \A i \in DOMAIN ev : ev[i].this = ev[1].this
             /\ last'.op \notin CreationCalls => ev[1].this = last'.obj
             /\ ret'.threw =>
                  /\ Len(ev) = 1
                  /\ ret'.result = NoObject
                  /\ UNCHANGED <<allWebGPUObjectsById, deviceIdToDeviceWeakRef,
                                 nextId, objId>>
             /\ ~ret'.threw =>
                  /\ Len(ev) >= 2
                  /\ IF last'.op \in CreationCalls
                       THEN /\ ret'.result = last'.obj
                            /\ heap[ret'.result] = "none"
                            /\ heap'[ret'.result] = "live"
                            /\ EntriesOf(allWebGPUObjectsById', ret'.result)
                                 = {objId'[ret'.result]}
                            /\ allWebGPUObjectsById'[objId'[ret'.result]].deviceId
                                 = objId[ev[1].this]
                       ELSE ret'.result = NoObject
     /\ last'.op = "createBuffer" =>
          \A d \in Devices, bufferSize \in BufferSizes :
            /\ CreateBuffer(d, last'.obj, bufferSize) =>
                 /\ ret'.events = <<Event("origFn", d), Event("addBuffer", d)>>
                 /\ allWebGPUObjectsById'[objId'[last'.obj]].size = FixedSize(bufferSize)
            /\ CreateBufferThrows(d, bufferSize) =>
                 (ret'.threw /\ ret'.events = <<Event("origFn", d)>>)
     /\ last'.op = "createQuerySet" =>
          \A d \in Devices, count \in QueryCounts :
            CreateQuerySet(d, last'.obj, count) =>
              ret'.events = <<Event("origFn", d), Event("addQuerySet", d),
                              Event("creationHook", d)>>
     /\ last'.op = "configure" =>
          \A d \in Devices, format \in CanvasFormats :
            /\ Configure(last'.obj, d, format) =>
                 ret'.events = <<Event("origFn", last'.obj),
                                 Event("addContext", last'.obj)>>
            /\ ConfigureThrows(last'.obj, d, format) =>
                 (ret'.threw /\ ret'.events = <<Event("origFn", last'.obj)>>)]_vars

\* createBuffer has just thrown while the table holds the entry of a
\* configured canvas, and the original alone was called.
C20_Witness ==
  /\ last.op = "createBuffer"
  /\ ret.threw
  /\ Len(ret.events) = 1
  /\ \E c \in Contexts : EntriesOf(allWebGPUObjectsById, c) # {}
  /\ \A r \in PageResources : heap[r] = "none"

\* ------------------------------------------------------------ C21
\* C21: when the promise of the wrapped requestDevice resolves, the hook has
\* run after the original: the device has the id the counter had, the counter
\* is one higher and the device table holds the device under that id; while
\* the promise is pending the device has no id and the page cannot call it;
\* a factory function is only ever called on a device of requestDevice that
\* has an id, which is in the device table unless the device was destroyed;
\* and when the original rejects, the tables, the counter and the ids stay as
\* they were.
C21_DeviceRegisteredBeforePromiseResolves ==
  [][/\ last'.op = "requestDevice settles" =>
          LET d == last'.obj
          IN IF ret'.threw
               THEN /\ heap'[d] # "live"
                    /\ ret'.events = <<Event("origFn", Adapter)>>
                    /\ UNCHANGED <<allWebGPUObjectsById, deviceIdToDeviceWeakRef,
                                   nextId, objId>>
               ELSE /\ ret'.result = d
                    /\ ret'.events = <<Event("origFn", Adapter), Event("addDevice", Adapter)>>
                    /\ objId[d] = Undefined
                    /\ objId'[d] = nextId
                    /\ nextId' = nextId + 1
                    /\ nextId \notin DOMAIN deviceIdToDeviceWeakRef
                    /\ deviceIdToDeviceWeakRef'[nextId] = WeakRef(d)
                    /\ heap[d] = "requested"
                    /\ heap'[d] = "live"
     /\ \A d \in TrackedDevices :
          heap'[d] \in {"none", "requested"} =>
            /\ objId'[d] = Undefined
            /\ \A id \in DOMAIN deviceIdToDeviceWeakRef' :
                 deviceIdToDeviceWeakRef'[id].target # d
     /\ (last'.op \in CreationCalls /\ ret'.events # <<>>) =>
          LET d == ret'.events[1].this
          IN /\ d \in TrackedDevices
             /\ heap[d] = "live"
             /\ objId[d] # Undefined
             /\ objId[d] \in DOMAIN deviceIdToDeviceWeakRef \/ destroyed[d]]_vars

\* The promise of requestDevice has just resolved, after a canvas was
\* configured and a snapshot was taken while it was pending.
C21_Witness ==
  /\ last.op = "requestDevice settles"
  /\ ~ret.threw
  /\ heap[last.obj] = "live"
  /\ objId[last.obj] > 1
  /\ deviceIdToDeviceWeakRef[objId[last.obj]] = WeakRef(last.obj)
  /\ \E c \in Contexts : objId[c] = 1

\* ------------------------------------------------------------ C22
\* C22: the entry a factory function leaves refers to the resource that was
\* made, a buffer, texture, query set, sampler, bind group, layout, shader
\* module or pipeline, for every wrapped factory function, the two ...Async
\* ones included.
C22_EntryRefersToCreatedResource ==
  [][(last'.op \in CreationCalls /\ ~ret'.threw) =>
       \E id \in DOMAIN allWebGPUObjectsById' :
         /\ id \notin DOMAIN allWebGPUObjectsById
         /\ allWebGPUObjectsById'[id].ref.target = ret'.result
         /\ class'[allWebGPUObjectsById'[id].ref.target] \in
              {"GPUBuffer", "GPUTexture", "GPUQuerySet"}
                \cup {ep.class : ep \in {e \in UnsizedEntryPoints :
                                           e.fn \notin {"createComputePipelineAsync",
                                                        "createRenderPipelineAsync"}}}]_vars

\* ------------------------------------------------------------ C23
\* C23: a step leaves every entry that is not stale and does not belong to the
\* object of the call (the object created, destroyed or configured) in the
\* table as it was, whatever the step is; and the entry a factory call makes
\* has the size of the size model: the buffer's size, the texture's level sum
\* times its layers, 8 bytes per query of a query set, and 0 for the rest.
C23_OtherEntriesUntouchedAndSizeOfModel ==
  [][/\ \A id \in DOMAIN allWebGPUObjectsById :
          (/\ NotStale(allWebGPUObjectsById[id])
           /\ allWebGPUObjectsById[id].ref.target # last'.obj)
          => /\ id \in DOMAIN allWebGPUObjectsById'
             /\ allWebGPUObjectsById'[id] = allWebGPUObjectsById[id]
     /\ (last'.op = "createBuffer" /\ ~ret'.threw) =>
          \A d \in Devices, bufferSize \in BufferSizes :
            CreateBuffer(d, last'.obj, bufferSize) =>
              allWebGPUObjectsById'[objId'[last'.obj]].size = FixedSize(bufferSize)
     /\ (last'.op = "createTexture" /\ ~ret'.threw) =>
          \A d \in Devices, t \in TextureDescriptors :
            CreateTexture(d, last'.obj, t) =>
              LET term(level) == LevelBytes(t.format, t.width, t.height, t.sampleCount)
                  layers == IF t.dimension = "3d" THEN 1 ELSE t.depthOrArrayLayers
              IN allWebGPUObjectsById'[objId'[last'.obj]].size
                   = FixedSize(layers * SumLevels(term, t.mipLevelCount))
     /\ (last'.op = "createQuerySet" /\ ~ret'.threw) =>
          \A d \in Devices, count \in QueryCounts :
            CreateQuerySet(d, last'.obj, count) =>
              allWebGPUObjectsById'[objId'[last'.obj]].size = FixedSize(8 * count)
     /\ (last'.op \in {ep.fn : ep \in UnsizedEntryPoints} /\ ~ret'.threw) =>
          allWebGPUObjectsById'[objId'[last'.obj]].size = FixedSize(0)]_vars

\* ------------------------------------------------------------ C24
\* C24: a call of getWebGPUMemoryUsage that follows a call with the same
\* argument, nothing having happened in between, returns the same memory and
\* resources, finds no id to delete and leaves the table as it is.
C24_SecondSnapshotIsSame ==
  [][(/\ SnapshotStep
      /\ last.op = "getWebGPUMemoryUsage"
      /\ ret'.device = ret.device)
     => /\ ret'.memory = ret.memory
        /\ ret'.resources = ret.resources
        /\ ret'.idsToDelete = <<>>
        /\ UNCHANGED <<allWebGPUObjectsById, deviceIdToDeviceWeakRef, nextId, objId>>]_vars

\* A snapshot has just found nothing to delete, an earlier one having taken
\* out the entry of a sampler, which is still live and has no destroy().
C24_Witness ==
  /\ last.op = "getWebGPUMemoryUsage"
  /\ ret.idsToDelete = <<>>
  /\ ret.deleted = EmptyMap
  /\ \E r \in PageResources :
       /\ heap[r] = "live"
       /\ class[r] = "GPUSampler"
       /\ objId[r] # Undefined
       /\ EntriesOf(allWebGPUObjectsById, r) = {}

\* The devices of the device table that still resolve, after the step
RegisteredDevicesAfter ==
  {deviceIdToDeviceWeakRef'[id].target :
     id \in {x \in DOMAIN deviceIdToDeviceWeakRef' :
               heap'[deviceIdToDeviceWeakRef'[x].target] = "live"}}

\* What getWebGPUMemoryUsage(device) returns when it is called after the step
InfoAfter(device) ==
  getWebGPUMemoryUsage([nextId |-> nextId', ids |-> objId',
                        objects |-> allWebGPUObjectsById',
                        devices |-> deviceIdToDeviceWeakRef'], device).info

\* ------------------------------------------------------------ C25
\* C25: every counter of a call getWebGPUMemoryUsage() is the sum of that
\* counter over the calls getWebGPUMemoryUsage(device) made right after it for
\* the devices of the device table: every counted entry belongs to exactly one
\* of them.
C25_UnfilteredIsSumOfFiltered ==
  [][(SnapshotStep /\ ret'.device = NoObject) =>
       /\ \A k \in DOMAIN ret'.memory :
            LET bytes(d) == InfoAfter(d).memory[k]
            IN ret'.memory[k] = SumOver(bytes, RegisteredDevicesAfter)
       /\ \A c \in Categories :
            LET count(d) == Reported(InfoAfter(d).resources, c)
            IN Reported(ret'.resources, c) = SumOver(count, RegisteredDevicesAfter)
       /\ \A id \in DOMAIN allWebGPUObjectsById' :
            Cardinality({d \in RegisteredDevicesAfter :
                           objId'[d] = allWebGPUObjectsById'[id].deviceId}) = 1]_vars

\* A snapshot without a device has just counted a buffer of one registered
\* device and a sampler of another.
C25_Witness ==
  /\ last.op = "getWebGPUMemoryUsage"
  /\ ret.device = NoObject
  /\ Reported(ret.resources, "buffer") = 1
  /\ Reported(ret.resources, "sampler") = 1
  /\ \E a, b \in DOMAIN allWebGPUObjectsById :
       /\ allWebGPUObjectsById[a].deviceId # allWebGPUObjectsById[b].deviceId
       /\ NotStale(allWebGPUObjectsById[a])
       /\ NotStale(allWebGPUObjectsById[b])
       /\ allWebGPUObjectsById[a].category = "buffer"
       /\ allWebGPUObjectsById[b].category = "sampler"

\* The categories wrapCreationDestroy registers with size 0 (lines 304-317)
UnsizedCategories == {ep.category : ep \in UnsizedEntryPoints}

\* ------------------------------------------------------------ C26
\* C26: a snapshot counts every entry of the categories sampler, bindGroup,
\* bindGroupLayout, pipelineLayout, shaderModule, computePipeline and
\* renderPipeline it is asked for in resources, and its memory is what it is
\* for the table without those entries: they add no byte to memory.total or
\* to any category, and the entry made for one of them has size 0.
C26_UnsizedCategoriesAddNoBytes ==
  [][/\ SnapshotStep =>
          LET unsized == {id \in DOMAIN allWebGPUObjectsById :
                            allWebGPUObjectsById[id].category \in UnsizedCategories}
              without == InfoWithout(unsized, ret'.device).memory
          IN /\ ret'.memory["total"] = without["total"]
             /\ ret'.memory = without
             /\ \A c \in UnsizedCategories :
                  /\ c \notin DOMAIN ret'.memory
                  /\ Reported(ret'.resources, c) =
                       Cardinality({id \in CountedIds(ret'.device) :
                                      allWebGPUObjectsById[id].category = c})
     /\ \A id \in DOMAIN allWebGPUObjectsById' :
          allWebGPUObjectsById'[id].category \in UnsizedCategories =>
            allWebGPUObjectsById'[id].size = FixedSize(0)]_vars

\* A snapshot has just counted a shader module next to a canvas whose bytes
\* are all of memory.total.
C26_Witness ==
  /\ last.op = "getWebGPUMemoryUsage"
  /\ Reported(ret.resources, "shaderModule") = 1
  /\ Reported(ret.resources, "canvas") = 1
  /\ ret.memory["canvas"] > 0
  /\ ret.memory["total"] = ret.memory["canvas"]

\* ------------------------------------------------------------ error scopes
\* Model of patchWebGPU (src/unnamed/part_000): the error scopes the patched
\* GPUDevice keeps next to the browser's own, and the validation errors the
\* patched createTexture emits into them for devices of a compatibility-mode
\* adapter.

\* Calls of pushErrorScope the devices get between them
MaxPushes == 2

\* GPUErrorFilter
ErrorFilters == {"validation", "out-of-memory", "internal"}

\* null, as an error
NoError == [type |-> "null", from |-> "none", serial |-> 0]
\* new GPUValidationError(...) of lines 124, 131 and 141: the n-th one made
GPUValidationError(n) == [type |-> "GPUValidationError", from |-> "patch", serial |-> n]
\* An error the browser itself has caught in the scope the original pops
BrowserErrors == {[type |-> "GPUOutOfMemoryError", from |-> "browser", serial |-> 0]}

\* The state of the layer, passed through the functions below
Patch == [stacks |-> deviceToErrorScopeStack, compat |-> deviceIsCompatSet,
          textures |-> textureToDeviceWeakMap, uncaptured |-> uncapturedErrors,
          made |-> errorsMade]

getFilterForGPUError(error) ==
  CASE error.type = "GPUValidationError" -> "validation"
    [] error.type = "GPUOutOfMemoryError" -> "out-of-memory"
    [] error.type = "GPUInternalError" -> "internal"

\* findLast with the first scope that has the filter, not the last
findLastFromFront(array, filter) ==
  LET hits == {i \in DOMAIN array : array[i].filter = filter}
  IN IF hits = {} THEN 0 ELSE CHOOSE i \in hits : \A j \in hits : i <= j

\* findLast(array, scope => scope.filter === filter) (lines 87-95, 100): the
\* index of the element found, 0 for undefined
findLast(array, filter) ==
  LET hits == {i \in DOMAIN array : array[i].filter = filter}
  IN IF hits = {} THEN 0 ELSE CHOOSE i \in hits : \A j \in hits : j <= i

\* emitGPUError(device, error) (lines 97-106)
emitGPUError(p, device, error) ==
  LET filter == getFilterForGPUError(error)
      errorScopeStack == p.stacks[device]
      currentErrorScope == findLast(errorScopeStack, filter)
  IN IF currentErrorScope # 0
       THEN [p EXCEPT !.stacks[device][currentErrorScope].errors = Append(@, error)]
       ELSE [p EXCEPT !.uncaptured = Append(@, [device |-> device, error |-> error])]

\* new GPUValidationError(...) followed by emitGPUError(this, ...)
emitNew(p, device) ==
  [emitGPUError(p, device, GPUValidationError(p.made + 1)) EXCEPT !.made = @ + 1]

\* The patched pushErrorScope up to the call of the original (lines 53-54);
\* the scope is a new object, told from the others by the number of the push
pushErrorScope(p, this, filter, scopeId) ==
  [p EXCEPT !.stacks[this] = Append(@, [filter |-> filter, errors |-> <<>>,
                                        id |-> scopeId])]

\* popErrorScope that leaves the scope on the stack until the original is done
popErrorScopeLate(p, this) ==
  LET errorScopeStack == p.stacks[this]
  IN IF errorScopeStack = <<>>
       THEN [p |-> p, threw |-> TRUE, errorScope |-> NoObject]
       ELSE [p |-> p, threw |-> FALSE,
             errorScope |-> errorScopeStack[Len(errorScopeStack)]]

\* popErrorScope that asks the original before it looks at the stack
popErrorScopeUnchecked(p, this) ==
  LET errorScopeStack == p.stacks[this]
  IN IF errorScopeStack = <<>>
       THEN [p |-> p, threw |-> FALSE, errorScope |-> NoObject]
       ELSE [p |-> [p EXCEPT !.stacks[this] = SubSeq(@, 1, Len(@) - 1)],
             threw |-> FALSE,
             errorScope |-> errorScopeStack[Len(errorScopeStack)]]

\* The patched popErrorScope up to the await (lines 62-67): errorScope is
\* what Array.pop() gave; with undefined the function throws at line 65 (its
\* promise rejects) and the original is not called
popErrorScope(p, this) ==
  LET errorScopeStack == p.stacks[this]
  IN IF errorScopeStack = <<>>
       THEN [p |-> p, threw |-> TRUE, errorScope |-> NoObject]
       ELSE [p |-> [p EXCEPT !.stacks[this] = SubSeq(@, 1, Len(@) - 1)],
             threw |-> FALSE,
             errorScope |-> errorScopeStack[Len(errorScopeStack)]]

\* The value of line 67 with the scope's errors first
popResultScopeFirst(outcome, errorScope) ==
  IF errorScope.errors # <<>> THEN errorScope.errors[Len(errorScope.errors)]
  ELSE outcome.result

\* (await origFn.call(this)) || errorScope.errors.pop() || null (line 67)
popResult(outcome, errorScope) ==
  IF outcome.result # NoError THEN outcome.result
  ELSE IF errorScope.errors # <<>> THEN errorScope.errors[Len(errorScope.errors)]
  ELSE NoError

\* GPUAdapter.prototype.requestDevice after the await (lines 39-44)
patchedRequestDevice(p, isCompatibilityMode, outcome) ==
  IF outcome.threw THEN p
  ELSE [p EXCEPT !.stacks = MapSet(@, outcome.result, <<>>),
                 !.compat = IF isCompatibilityMode THEN @ \cup {outcome.result}
                            ELSE @]

\* isDeviceCompat(device) (lines 33-35)
isDeviceCompat(p, device) == device \in p.compat

\* (size as number[])[2] || size.depthOrArrayLayers || 1 (line 113); a size
\* given as an array has no depthOrArrayLayers, one given as a dictionary no
\* element 2
depthOrArrayLayersOf(size) ==
  IF Len(size.array) >= 3 /\ size.array[3] # 0 THEN size.array[3]
  ELSE IF size.depthOrArrayLayers # Undefined THEN size.depthOrArrayLayers
  ELSE 1

\* The view dimension lines 114-120 settle on; "" is a member left out
textureBindingViewDimensionOf(desc) ==
  LET dimension == IF desc.dimension = "" THEN "2d" ELSE desc.dimension
      depthOrArrayLayers == depthOrArrayLayersOf(desc.size)
  IN IF desc.textureBindingViewDimension = ""
       THEN IF dimension = "2d"
              THEN IF depthOrArrayLayers > 1 THEN "2d-array" ELSE "2d"
              ELSE dimension
       ELSE desc.textureBindingViewDimension

\* The two tests of lines 121 and 128, of which at most one emits
dimensionMismatch(desc) ==
  LET depthOrArrayLayers == depthOrArrayLayersOf(desc.size)
      textureBindingViewDimension == textureBindingViewDimensionOf(desc)
  IN \/ textureBindingViewDimension = "2d" /\ depthOrArrayLayers # 1
     \/ textureBindingViewDimension = "cube" /\ depthOrArrayLayers # 6

\* vfs.findIndex(viewFormat => viewFormat !== format) >= 0 (lines 136-138);
\* viewFormats left out is the empty sequence
viewFormatMismatch(desc) ==
  \E i \in DOMAIN desc.viewFormats : desc.viewFormats[i] # desc.format

\* createTexture that checks the descriptor for every device
patchedCreateTextureAnyDevice(p, this, desc, texture) ==
  LET p1 == IF dimensionMismatch(desc) THEN emitNew(p, this) ELSE p
      p2 == IF viewFormatMismatch(desc) THEN emitNew(p1, this) ELSE p1
  IN [p2 EXCEPT !.textures = MapSet(@, texture, this)]

\* GPUDevice.prototype.createTexture (lines 108-153); texture is what the
\* original returned
patchedCreateTexture(p, this, desc, texture) ==
  LET p1 == IF dimensionMismatch(desc) THEN emitNew(p, this) ELSE p
      p2 == IF viewFormatMismatch(desc) THEN emitNew(p1, this) ELSE p1
      checked == IF isDeviceCompat(p, this) THEN p2 ELSE p
  IN [checked EXCEPT !.textures = MapSet(@, texture, this)]

\* What the browser's pushErrorScope does with the filter it is given: a
\* value outside GPUErrorFilter is a TypeError
origPushErrorScope(filter) ==
  IF filter \in ErrorFilters THEN Returns(NoObject) ELSE Throws

\* The filters the application pushes, one of them not a GPUErrorFilter
PushedFilters == {"validation", "out-of-memory", "bogus"}

\* What the browser's popErrorScope settles with: null, an error of its
\* own, or a rejection
OriginalPopOutcomes == {Returns(NoError), Throws} \cup {Returns(e) : e \in BrowserErrors}

\* The descriptors the application passes to the patched createTexture
CompatTextureDescriptors ==
  {[dimension |-> "", format |-> "rgba8unorm", size |-> size,
    textureBindingViewDimension |-> tbvd, viewFormats |-> viewFormats] :
     size \in {[array |-> <<4, 4>>, depthOrArrayLayers |-> Undefined],
               [array |-> <<4, 4, 6>>, depthOrArrayLayers |-> Undefined],
               [array |-> <<>>, depthOrArrayLayers |-> 2]},
     tbvd \in {"", "2d", "cube"},
     viewFormats \in {<<>>, <<"rgba8unorm", "rgba8unorm-srgb">>}}

\* The DOMException of line 65
OperationError == [type |-> "OperationError", from |-> "patch", serial |-> 0]

trackerVars == <<nextId, objId, allWebGPUObjectsById, deviceIdToDeviceWeakRef,
                 destroyed, canvas>>

SetPatch(p) ==
  /\ deviceToErrorScopeStack' = p.stacks
  /\ deviceIsCompatSet' = p.compat
  /\ textureToDeviceWeakMap' = p.textures
  /\ uncapturedErrors' = p.uncaptured
  /\ errorsMade' = p.made

\* Devices that came out of the patched requestDevice
PatchedDevices == DOMAIN deviceToErrorScopeStack

\* adapter.requestDevice() of an adapter with the given isCompatibilityMode,
\* from the call to the settling of its promise
PatchedRequestDevice(d, isCompatibilityMode, outcome) ==
  /\ d \in Fresh(TrackedDevices)
  /\ outcome \in {Returns(d), Throws}
  /\ SetPatch(patchedRequestDevice(Patch, isCompatibilityMode, outcome))
  /\ heap' = [heap EXCEPT ![d] = IF outcome.threw THEN @ ELSE "live"]
  /\ class' = [class EXCEPT ![d] = IF outcome.threw THEN @ ELSE "GPUDevice"]
  /\ last' = Call("requestDevice", d)
  /\ ret' = [NoReturn EXCEPT !.result = outcome.result, !.threw = outcome.threw,
                             !.events = <<Event("origFn", Adapter)>>]
  /\ UNCHANGED <<pendingPops, pushes, pops>>
  /\ UNCHANGED trackerVars
  /\ UNCHANGED probeVars

RECURSIVE SumOfPushes(_)
SumOfPushes(S) ==
  IF S = {} THEN 0
  ELSE LET d == CHOOSE x \in S : TRUE IN pushes[d] + SumOfPushes(S \ {d})

PushesMade == SumOfPushes(Devices)

\* device.pushErrorScope(filter)
PushErrorScope(d, filter) ==
  LET outcome == origPushErrorScope(filter)
  IN /\ d \in PatchedDevices
     /\ PushesMade < MaxPushes
     /\ SetPatch(pushErrorScope(Patch, d, filter, pushes[d] + 1))
     /\ pushes' = [pushes EXCEPT ![d] = @ + 1]
     /\ last' = Call("pushErrorScope", d)
     /\ ret' = [NoReturn EXCEPT !.threw = outcome.threw,
                                !.events = <<Event("origFn", d)>>]
     /\ UNCHANGED <<pendingPops, pops, heap, class>>
     /\ UNCHANGED trackerVars
     /\ UNCHANGED probeVars

\* device.popErrorScope() up to its await: either the promise it returns is
\* rejected already, or the original has been called and is awaited
PopErrorScope(d) ==
  LET popped == popErrorScope(Patch, d)
  IN /\ d \in PatchedDevices
     /\ SetPatch(popped.p)
     /\ pendingPops' = IF popped.threw THEN pendingPops
                       ELSE Append(pendingPops, [device |-> d,
                                                 errorScope |-> popped.errorScope])
     /\ pops' = IF popped.threw THEN pops ELSE [pops EXCEPT ![d] = @ + 1]
     /\ last' = Call("popErrorScope", d)
     /\ ret' = [NoReturn EXCEPT
                  !.threw = popped.threw,
                  !.result = IF popped.threw THEN OperationError ELSE NoObject,
                  !.events = IF popped.threw THEN <<>> ELSE <<Event("origFn", d)>>]
     /\ UNCHANGED <<pushes, heap, class>>
     /\ UNCHANGED trackerVars
     /\ UNCHANGED probeVars

\* The pending calls the browser can settle next: on every device the
\* earliest one
Settleable ==
  {i \in DOMAIN pendingPops :
     \A j \in 1..(i - 1) : pendingPops[j].device # pendingPops[i].device}

RemoveAt(seq, i) == SubSeq(seq, 1, i - 1) \o SubSeq(seq, i + 1, Len(seq))

\* The original popErrorScope of the i-th pending call settles and the
\* patched one goes on after its await (lines 67-68)
PopErrorScopeSettles(i, outcome) ==
  /\ i \in Settleable
  /\ outcome \in OriginalPopOutcomes
  /\ pendingPops' = RemoveAt(pendingPops, i)
  /\ last' = Call("popErrorScope settles",
                  [index |-> i, outcome |-> outcome,
                   device |-> pendingPops[i].device,
                   scope |-> pendingPops[i].errorScope.id])
  /\ ret' = [NoReturn EXCEPT
               !.threw = outcome.threw,
               !.result = IF outcome.threw THEN NoObject
                          ELSE popResult(outcome, pendingPops[i].errorScope)]
  /\ UNCHANGED <<deviceToErrorScopeStack, deviceIsCompatSet, textureToDeviceWeakMap,
                 uncapturedErrors, errorsMade, pushes, pops, heap, class>>
  /\ UNCHANGED trackerVars
  /\ UNCHANGED probeVars

\* device.createTexture(desc) through the patched function
PatchedCreateTexture(d, r, desc) ==
  /\ d \in PatchedDevices
  /\ r \in Fresh(Resources)
  /\ SetPatch(patchedCreateTexture(Patch, d, desc, r))
  /\ heap' = [heap EXCEPT ![r] = "live"]
  /\ class' = [class EXCEPT ![r] = "GPUTexture"]
  /\ last' = Call("createTexture",
                  [device |-> d, texture |-> r,
                   emitted |-> patchedCreateTexture(Patch, d, desc, r).made - errorsMade])
  /\ ret' = [NoReturn EXCEPT !.result = r, !.events = <<Event("origFn", d)>>]
  /\ UNCHANGED <<pendingPops, pushes, pops>>
  /\ UNCHANGED trackerVars
  /\ UNCHANGED probeVars

NextErrors ==
  \/ \E d \in TrackedDevices, isCompatibilityMode \in BOOLEAN :
       \E outcome \in {Returns(d), Throws} :
         PatchedRequestDevice(d, isCompatibilityMode, outcome)
  \/ \E d \in TrackedDevices, filter \in PushedFilters : PushErrorScope(d, filter)
  \/ \E d \in TrackedDevices : PopErrorScope(d)
  \/ \E i \in DOMAIN pendingPops, outcome \in OriginalPopOutcomes :
       PopErrorScopeSettles(i, outcome)
  \/ \E d \in TrackedDevices, r \in Resources, desc \in CompatTextureDescriptors :
       PatchedCreateTexture(d, r, desc)

SpecErrors == Init /\ [][NextErrors]_vars

\* ------------------------------------------------ claims on error scopes

\* The scopes open on a device, and the scopes taken by calls still pending
OpenScopes(d) == {deviceToErrorScopeStack[d][i] : i \in DOMAIN deviceToErrorScopeStack[d]}
PendingScopes(d) ==
  {pendingPops[i].errorScope : i \in {j \in DOMAIN pendingPops : pendingPops[j].device = d}}

\* The scope pushed last among those of a stack
MostRecentlyPushed(stack) ==
  CHOOSE scope \in {stack[i] : i \in DOMAIN stack} :
    \A i \in DOMAIN stack : stack[i].id <= scope.id

DepthIsPushesMinusPops ==
  \A d \in PatchedDevices :
    Len(deviceToErrorScopeStack[d]) = pushes[d] - pops[d]

PopTakesTopOrThrows ==
  last'.op = "popErrorScope" =>
    LET d == last'.obj
        stack == deviceToErrorScopeStack[d]
    IN /\ \A other \in PatchedDevices \ {d} :
            deviceToErrorScopeStack'[other] = deviceToErrorScopeStack[other]
       /\ IF stack = <<>>
            THEN /\ ret'.threw
                 /\ ret'.result = OperationError
                 /\ ret'.events = <<>>
                 /\ deviceToErrorScopeStack'[d] = <<>>
                 /\ pendingPops' = pendingPops
                 /\ pops' = pops
            ELSE /\ ~ret'.threw
                 /\ ret'.events = <<Event("origFn", d)>>
                 /\ deviceToErrorScopeStack'[d] = SubSeq(stack, 1, Len(stack) - 1)
                 /\ stack[Len(stack)] = MostRecentlyPushed(stack)
                 /\ pops' = [pops EXCEPT ![d] = @ + 1]

PushAddsOneScope ==
  last'.op = "pushErrorScope" =>
    LET d == last'.obj
        stack == deviceToErrorScopeStack[d]
    IN /\ Len(deviceToErrorScopeStack'[d]) = Len(stack) + 1
       /\ SubSeq(deviceToErrorScopeStack'[d], 1, Len(stack)) = stack
       /\ pushes' = [pushes EXCEPT ![d] = @ + 1]

\* C27: on a device that came out of the patched requestDevice, popErrorScope
\* with an empty tracked stack throws an OperationError, does not call the
\* original and leaves the stack empty; otherwise it removes exactly the scope
\* pushed last among the open ones; the depth of the stack is at all times the
\* number of pushErrorScope calls minus the number of popErrorScope calls that
\* found a scope.
C27_PopThrowsOnEmptyElseRemovesTop ==
  /\ []DepthIsPushesMinusPops
  /\ [][PopTakesTopOrThrows /\ PushAddsOneScope]_vars

\* A popErrorScope that threw on a device whose only scope an earlier
\* popErrorScope has taken
C27_Witness ==
  /\ last.op = "popErrorScope"
  /\ ret.threw
  /\ pushes[last.obj] >= 1
  /\ pops[last.obj] = pushes[last.obj]

Range(seq) == {seq[i] : i \in DOMAIN seq}

\* The GPUError class a filter stands for
ErrorClassOf(filter) ==
  CASE filter = "validation" -> "GPUValidationError"
    [] filter = "out-of-memory" -> "GPUOutOfMemoryError"
    [] filter = "internal" -> "GPUInternalError"

FilterMatches(scope, error) ==
  scope.filter \in ErrorFilters /\ ErrorClassOf(scope.filter) = error.type

\* Where an error is held: open scopes, scopes of pending pops, events
Places(stacks, pending, uncaptured, error) ==
  {<<"open", x[1], x[2]>> :
     x \in {y \in (DOMAIN stacks) \X (1..MaxPushes) :
              /\ y[2] \in DOMAIN stacks[y[1]]
              /\ error \in Range(stacks[y[1]][y[2]].errors)}}
  \cup {<<"pending", NoObject, i>> :
          i \in {j \in DOMAIN pending : error \in Range(pending[j].errorScope.errors)}}
  \cup {<<"event", uncaptured[i].device, i>> :
          i \in {j \in DOMAIN uncaptured : uncaptured[j].error = error}}

\* The errors the layer has made so far
ErrorsEmitted == {GPUValidationError(n) : n \in 1..errorsMade}

ScopesHoldTheirFilterOnly ==
  \A d \in PatchedDevices : \A scope \in OpenScopes(d) \cup PendingScopes(d) :
    \A error \in Range(scope.errors) : FilterMatches(scope, error)

NoErrorInTwoPlaces ==
  \A error \in ErrorsEmitted :
    Cardinality(Places(deviceToErrorScopeStack, pendingPops, uncapturedErrors, error)) <= 1

EmittedErrorsGoToInnermostScope ==
  last'.op = "createTexture" =>
    LET d == last'.obj.device
        stack == deviceToErrorScopeStack[d]
    IN /\ pendingPops' = pendingPops
       /\ \A error \in {GPUValidationError(n) : n \in (errorsMade + 1)..errorsMade'} :
            LET matching == {i \in DOMAIN stack : FilterMatches(stack[i], error)}
                innermost == CHOOSE i \in matching : \A j \in matching : j <= i
                places == Places(deviceToErrorScopeStack', pendingPops',
                                 uncapturedErrors', error)
            IN /\ Cardinality(places) = 1
               /\ IF matching # {}
                    THEN places = {<<"open", d, innermost>>}
                    ELSE \E place \in places : place[1] = "event" /\ place[2] = d
       /\ \A other \in PatchedDevices :
            /\ Len(deviceToErrorScopeStack'[other]) = Len(deviceToErrorScopeStack[other])
            /\ \A i \in DOMAIN deviceToErrorScopeStack[other] :
                 LET before == deviceToErrorScopeStack[other][i]
                     after == deviceToErrorScopeStack'[other][i]
                 IN /\ after.filter = before.filter
                    /\ after.id = before.id
                    /\ Range(before.errors) \subseteq Range(after.errors)
                    /\ Range(after.errors) \ Range(before.errors) \subseteq
                         {GPUValidationError(n) : n \in (errorsMade + 1)..errorsMade'}

\* C28: an error the layer emits on a device is held in exactly one place
\* after the call: the innermost open scope of that device whose filter is
\* the one of the error's class, or, with no such scope open, an
\* uncapturedError event on that device; no scope ever holds an error of
\* another filter, and no error is ever held in two places.
C28_ErrorGoesToInnermostMatchingScope ==
  /\ [](ScopesHoldTheirFilterOnly /\ NoErrorInTwoPlaces)
  /\ [][EmittedErrorsGoToInnermostScope]_vars

\* createTexture has just recorded an error in the inner one of two open
\* validation scopes of its device
C28_Witness ==
  /\ last.op = "createTexture"
  /\ errorsMade >= 1
  /\ LET stack == deviceToErrorScopeStack[last.obj.device]
     IN /\ Len(stack) = 2
        /\ stack[1].filter = "validation"
        /\ stack[2].filter = "validation"
        /\ GPUValidationError(errorsMade) \in Range(stack[2].errors)

\* The call that has just settled, as it stood before: its device and scope
SettledCall == pendingPops[last'.obj.index]

PopResolvesToOriginalElseScopeElseNull ==
  last'.op = "popErrorScope settles" =>
    LET outcome == last'.obj.outcome
        errors == SettledCall.errorScope.errors
    IN /\ ret'.threw = outcome.threw
       /\ ~outcome.threw =>
            ret'.result = IF outcome.result # NoError THEN outcome.result
                          ELSE IF errors # <<>> THEN errors[Len(errors)]
                          ELSE NoError

\* After a popErrorScope has settled, no open scope and no scope of a call
\* still pending holds any error of the scope it took, the reported one
\* included: no later call can report it
SettledScopeIsGone ==
  last'.op = "popErrorScope settles" =>
    \A error \in Range(SettledCall.errorScope.errors) :
      \A place \in Places(deviceToErrorScopeStack', pendingPops',
                          uncapturedErrors', error) :
        place[1] = "event"

\* C29: the patched popErrorScope resolves to the error of the original
\* popErrorScope when that is not null, otherwise to the error recorded last
\* in the scope it took, otherwise to null; an error recorded in a scope is
\* in that one scope only, which one popErrorScope call takes, so at most one
\* call reports it.
C29_PopReportsOriginalThenScopeThenNull ==
  /\ []NoErrorInTwoPlaces
  /\ [][PopResolvesToOriginalElseScopeElseNull /\ SettledScopeIsGone]_vars

\* A popErrorScope whose original resolved to null has resolved to the
\* second of two errors recorded in its scope
C29_Witness ==
  /\ last.op = "popErrorScope settles"
  /\ ~ret.threw
  /\ last.obj.outcome.result = NoError
  /\ ret.result.from = "patch"
  /\ ret.result.serial = 2
  /\ GPUValidationError(1) \notin {uncapturedErrors[i].error : i \in DOMAIN uncapturedErrors}

\* popErrorScope takes its scope off the stack in the step of the call
PopTakesScopeAtCallTime ==
  (last'.op = "popErrorScope" /\ ~ret'.threw) =>
    LET d == last'.obj
        stack == deviceToErrorScopeStack[d]
        taken == stack[Len(stack)]
    IN /\ pendingPops' = Append(pendingPops, [device |-> d, errorScope |-> taken])
       /\ taken = MostRecentlyPushed(stack)
       /\ \A scope \in Range(deviceToErrorScopeStack'[d]) : scope.id # taken.id

\* The scopes of pending calls are off the stack, and no two pending calls
\* of a device have the same scope
PendingScopesAreDistinctAndClosed ==
  \A i \in DOMAIN pendingPops :
    LET d == pendingPops[i].device
    IN /\ \A scope \in OpenScopes(d) : scope.id # pendingPops[i].errorScope.id
       /\ \A j \in DOMAIN pendingPops :
            (j # i /\ pendingPops[j].device = d) =>
              pendingPops[j].errorScope.id # pendingPops[i].errorScope.id

\* A scope taken by a pending call gets no error any more
PendingScopesGetNoErrors ==
  \A i \in DOMAIN pendingPops, j \in DOMAIN pendingPops' :
    (/\ pendingPops'[j].device = pendingPops[i].device
     /\ pendingPops'[j].errorScope.id = pendingPops[i].errorScope.id) =>
      pendingPops'[j].errorScope = pendingPops[i].errorScope

\* C30: the patched popErrorScope removes its scope from the tracked stack in
\* the call itself, before it awaits the original: every call takes the
\* scope that is on top when it is made, so overlapping calls on a device
\* get distinct scopes, innermost first, and an error emitted while a call
\* is pending is never recorded in the scope that call took.
C30_PopRemovesScopeBeforeAwait ==
  /\ []PendingScopesAreDistinctAndClosed
  /\ [][PopTakesScopeAtCallTime /\ PendingScopesGetNoErrors]_vars

\* Two popErrorScope calls of one device are pending, the first with the
\* inner and the second with the outer of two validation scopes, and a
\* createTexture on that device has just emitted an error, which went to
\* an uncapturedError event
C30_Witness ==
  /\ Len(pendingPops) = 2
  /\ pendingPops[1].device = pendingPops[2].device
  /\ pendingPops[1].errorScope.filter = "validation"
  /\ pendingPops[2].errorScope.filter = "validation"
  /\ pendingPops[1].errorScope.id = 2
  /\ pendingPops[2].errorScope.id = 1
  /\ last.op = "createTexture"
  /\ last.obj.device = pendingPops[1].device
  /\ last.obj.emitted >= 1
  /\ \E i \in DOMAIN uncapturedErrors :
       uncapturedErrors[i] = [device |-> last.obj.device,
                              error |-> GPUValidationError(errorsMade)]

\* ------------------------------------------------------------ C33
\* C33: in every reachable state every entry of allWebGPUObjectsById stored
\* under key k has id = k, k is a positive integer below nextId, and k is not
\* a key of deviceIdToDeviceWeakRef.
C33_EntryKeyIsItsIdAndNoDeviceKey ==
  \A k \in DOMAIN allWebGPUObjectsById :
    /\ allWebGPUObjectsById[k].id = k
    /\ k \in Nat
    /\ 1 <= k
    /\ k < nextId
    /\ k \notin DOMAIN deviceIdToDeviceWeakRef

\* A texture has been created on a registered device after a context got
\* the first id: entries and a device-table entry exist side by side
C33_Witness ==
  /\ last.op = "createTexture"
  /\ DOMAIN deviceIdToDeviceWeakRef # {}
  /\ Cardinality(DOMAIN allWebGPUObjectsById) >= 2
  /\ \E k \in DOMAIN allWebGPUObjectsById :
       \E dk \in DOMAIN deviceIdToDeviceWeakRef :
         /\ k > dk
         /\ allWebGPUObjectsById[k].deviceId = dk
  /\ \E k \in DOMAIN allWebGPUObjectsById :
       \A dk \in DOMAIN deviceIdToDeviceWeakRef : k < dk

\* ------------------------------------------------------------ swizzles
\* Model of texture_component_swizzle_utils.js: a GPUTextureComponentSwizzle
\* is a record of its four members r, g, b, a; a member that is left out is
\* UndefinedComponent.

UndefinedComponent == "undefined"

\* The values of kSwizzleLetterToComponent (lines 57-65)
SwizzleComponents == {UndefinedComponent, "r", "g", "b", "a", "zero", "one"}

\* kComponents (line 67)
kComponents == <<"r", "g", "b", "a">>

\* {}: a swizzle with no member
EmptySwizzle == [r |-> UndefinedComponent, g |-> UndefinedComponent,
                 b |-> UndefinedComponent, a |-> UndefinedComponent]

\* `v ? ... : ...` on a member: undefined is falsy, every component name truthy
Truthy(v) == v # UndefinedComponent /\ v # ""

\* `v ?? d`
NullishCoalesce(v, d) == IF v = UndefinedComponent THEN d ELSE v

\* swizzleComponentToTexelComponent (lines 80-98); no case, no return value
swizzleComponentToTexelComponent(src, component) ==
  CASE component = "zero" -> 0
    [] component = "one" -> 1
    [] component = "r" -> src.R
    [] component = "g" -> src.G
    [] component = "b" -> src.B
    [] component = "a" -> src.A
    [] OTHER -> Undefined

\* swizzleTexel that maps every member, a missing one as zero
swizzleTexelNoDefault(src, swizzle) ==
  [R |-> swizzleComponentToTexelComponent(src, swizzle.r),
   G |-> swizzleComponentToTexelComponent(src, swizzle.g),
   B |-> swizzleComponentToTexelComponent(src, swizzle.b),
   A |-> swizzleComponentToTexelComponent(src, swizzle.a)]

\* swizzleTexel (lines 100-110)
swizzleTexel(src, swizzle) ==
  [R |-> IF Truthy(swizzle.r) THEN swizzleComponentToTexelComponent(src, swizzle.r)
         ELSE src.R,
   G |-> IF Truthy(swizzle.g) THEN swizzleComponentToTexelComponent(src, swizzle.g)
         ELSE src.G,
   B |-> IF Truthy(swizzle.b) THEN swizzleComponentToTexelComponent(src, swizzle.b)
         ELSE src.B,
   A |-> IF Truthy(swizzle.a) THEN swizzleComponentToTexelComponent(src, swizzle.a)
         ELSE src.A]

\* isIdentitySwizzle (lines 112-119)
isIdentitySwizzle(swizzle) ==
  /\ (swizzle.r = UndefinedComponent \/ swizzle.r = "r")
  /\ (swizzle.g = UndefinedComponent \/ swizzle.g = "g")
  /\ (swizzle.b = UndefinedComponent \/ swizzle.b = "b")
  /\ (swizzle.a = UndefinedComponent \/ swizzle.a = "a")

\* normalizeSwizzle that leaves missing members missing
normalizeSwizzleKeepsUndefined(swizzle) == swizzle

\* normalizeSwizzle (lines 121-128)
normalizeSwizzle(swizzle) ==
  [r |-> NullishCoalesce(swizzle.r, "r"),
   g |-> NullishCoalesce(swizzle.g, "g"),
   b |-> NullishCoalesce(swizzle.b, "b"),
   a |-> NullishCoalesce(swizzle.a, "a")]

\* swizzlesAreTheSame (lines 130-137)
swizzlesAreTheSame(a, b) ==
  LET na == normalizeSwizzle(a)
      nb == normalizeSwizzle(b)
  IN na.r = nb.r /\ na.g = nb.g /\ na.b = nb.b /\ na.a = nb.a

\* Every swizzle: 7 values for each of 4 members (line 27)
Swizzles == [r : SwizzleComponents, g : SwizzleComponents,
             b : SwizzleComponents, a : SwizzleComponents]

\* The swizzles a first one is compared with: each member missing, its own
\* component, or the next component
ComparedSwizzles ==
  [r : {UndefinedComponent, "r", "g"}, g : {UndefinedComponent, "g", "b"},
   b : {UndefinedComponent, "b", "a"}, a : {UndefinedComponent, "a", "r"}]

\* The texels swizzled
TexelInputs == [R : {0, 2}, G : {0, 3}, B : {1, 4}, A : {1, 5}]

IsIdentitySwizzle(swizzle) ==
  /\ last.op = "init"
  /\ last' = Call("isIdentitySwizzle", [swizzle |-> swizzle])
  /\ ret' = [NoReturn EXCEPT !.result = isIdentitySwizzle(swizzle)]
  /\ UNCHANGED <<heap, class>>
  /\ UNCHANGED trackerVars
  /\ UNCHANGED patchVars
  /\ UNCHANGED probeVars

SwizzlesAreTheSame(a, b) ==
  /\ last.op = "init"
  /\ last' = Call("swizzlesAreTheSame", [a |-> a, b |-> b])
  /\ ret' = [NoReturn EXCEPT !.result = swizzlesAreTheSame(a, b)]
  /\ UNCHANGED <<heap, class>>
  /\ UNCHANGED trackerVars
  /\ UNCHANGED patchVars
  /\ UNCHANGED probeVars

SwizzleTexel(src, swizzle) ==
  /\ last.op = "init"
  /\ last' = Call("swizzleTexel", [src |-> src, swizzle |-> swizzle, texel |-> TRUE])
  /\ ret' = [NoReturn EXCEPT !.result = swizzleTexel(src, swizzle)]
  /\ UNCHANGED <<heap, class>>
  /\ UNCHANGED trackerVars
  /\ UNCHANGED patchVars
  /\ UNCHANGED probeVars

\* The inputs still to be tried: every one, until a call has been made
Untried(inputs) == IF last.op = "init" THEN inputs ELSE {}

NextSwizzle ==
  \/ \E swizzle \in Untried(Swizzles) : IsIdentitySwizzle(swizzle)
  \/ \E a \in Untried(Swizzles), b \in ComparedSwizzles : SwizzlesAreTheSame(a, b)
  \/ \E src \in Untried(TexelInputs), swizzle \in Swizzles : SwizzleTexel(src, swizzle)

SpecSwizzle == Init /\ [][NextSwizzle]_vars

\* ------------------------------------------------------------ C32
IdentityIsSameAsEmpty ==
  last.op = "isIdentitySwizzle" =>
    /\ ret.result = isIdentitySwizzle(last.obj.swizzle)
    /\ ret.result <=> swizzlesAreTheSame(last.obj.swizzle, EmptySwizzle)
    /\ ret.result <=> swizzlesAreTheSame(EmptySwizzle, last.obj.swizzle)

SameIsAnEquivalence ==
  last.op = "swizzlesAreTheSame" =>
    LET a == last.obj.a
        b == last.obj.b
    IN /\ swizzlesAreTheSame(a, a)
       /\ swizzlesAreTheSame(b, b)
       /\ ret.result <=> swizzlesAreTheSame(b, a)
       /\ ret.result =>
            \A c \in ComparedSwizzles :
              swizzlesAreTheSame(b, c) => swizzlesAreTheSame(a, c)
       /\ (isIdentitySwizzle(a) /\ isIdentitySwizzle(b)) => ret.result

IdentityLeavesTexel ==
  last.op = "swizzleTexel" =>
    (isIdentitySwizzle(last.obj.swizzle) => ret.result = last.obj.src)

\* C32: for every swizzle whose members are undefined, r, g, b, a, zero or
\* one, isIdentitySwizzle holds exactly when swizzlesAreTheSame with {}
\* holds; swizzlesAreTheSame is reflexive, symmetric and transitive; and
\* swizzleTexel with an identity swizzle returns a texel equal to its source.
C32_IdentityIsSameAsEmptyAndLeavesTexel ==
  IdentityIsSameAsEmpty /\ SameIsAnEquivalence /\ IdentityLeavesTexel

\* Two different swizzles with missing members were found the same, and a
\* third one, different from both, is the same as the second
C32_Witness ==
  /\ last.op = "swizzlesAreTheSame"
  /\ ret.result = TRUE
  /\ last.obj.a # last.obj.b
  /\ last.obj.a.r = UndefinedComponent
  /\ last.obj.b.g = UndefinedComponent
  /\ ~isIdentitySwizzle(last.obj.a)
  /\ \E c \in ComparedSwizzles :
       c # last.obj.a /\ c # last.obj.b /\ swizzlesAreTheSame(last.obj.b, c)

\* ------------------------------------------------------------ the probe
\* Model of getProvokingVertexForFlatInterpolationEitherSampling
\* (src/unnamed/part_001, lines 5-91): an async function that draws one
\* triangle on the device, reads one byte back and keeps the answer per device.

\* Calls of the function in one run
MaxProbeCalls == 3

\* FlatSampling (line 3)
FlatSampling == {"first", "last"}

\* undefined, as a value of `sampling`
NoSampling == "undefined"

\* The devices the function is called with
ProbeDevices == Devices

\* The byte the device leaves in the buffer (line 80): the index of the
\* provoking vertex of the triangle, 0 or 2, or, on a device that follows
\* neither rule, something else
RenderedByte(device) ==
  IF device \in UntrackedDevices THEN 1
  ELSE IF device[2] = 1 THEN 0 ELSE 2

\* The state of the function and of the GPU, passed through the operators below
Probe == [cache |-> s_deviceToEitherSamplingIndex, calls |-> probeCalls,
          objects |-> gpuObjects, submitted |-> submitted]

\* What lines 16-77 create, in that order
ProbeObjectKinds ==
  <<"GPUShaderModule", "GPURenderPipeline", "GPUTexture", "GPUCommandEncoder",
    "GPUTextureView", "GPURenderPassEncoder", "GPUBuffer", "GPUCommandBuffer">>

ProbeObjects(device, call) ==
  [i \in DOMAIN ProbeObjectKinds |->
     [kind |-> ProbeObjectKinds[i], device |-> device, call |-> call,
      destroyed |-> FALSE]]

\* The function without line 15: it probes whatever the cache holds
getProvokingVertexUncached(p, device) ==
  LET call == Len(p.calls) + 1
  IN [p EXCEPT
        !.objects = @ \o ProbeObjects(device, call),
        !.submitted = Append(@, [device |-> device, call |-> call]),
        !.calls = Append(@, [device |-> device, pc |-> "mapAsync",
                             sampling |-> NoSampling,
                             events |-> <<"create", "submit", "mapAsync">>])]

\* The function from its call to its first await (lines 14-79), or to its
\* return when the cache has the answer (lines 14-15, 90)
getProvokingVertexForFlatInterpolationEitherSampling(p, device) ==
  LET sampling == IF MapHas(p.cache, device) THEN p.cache[device] ELSE NoSampling
      call == Len(p.calls) + 1
  IN IF sampling # NoSampling
       THEN [p EXCEPT !.calls = Append(@, [device |-> device, pc |-> "resolved",
                                           sampling |-> sampling, events |-> <<>>])]
       ELSE [p EXCEPT
               !.objects = @ \o ProbeObjects(device, call),
               !.submitted = Append(@, [device |-> device, call |-> call]),
               !.calls = Append(@, [device |-> device, pc |-> "mapAsync",
                                    sampling |-> NoSampling,
                                    events |-> <<"create", "submit", "mapAsync">>])]

\* buffer.destroy(); texture.destroy() (lines 83-84) of a call
destroyBufferAndTexture(objects, call) ==
  [i \in DOMAIN objects |->
     IF objects[i].call = call /\ objects[i].kind \in {"GPUBuffer", "GPUTexture"}
       THEN [objects[i] EXCEPT !.destroyed = TRUE]
       ELSE objects[i]]

\* The rest of the function with the answer kept before anything is destroyed
afterMapAsyncCachesFirst(p, call, outcome) ==
  LET device == p.calls[call].device
      result == RenderedByte(device)
      sampling == IF result = 2 THEN "last" ELSE "first"
  IN IF outcome = "rejected"
       THEN [p EXCEPT !.calls[call].pc = "rejected"]
     ELSE IF ~(result = 0 \/ result = 2)
       THEN [p EXCEPT !.calls[call].pc = "rejected"]
     ELSE [p EXCEPT !.cache = MapSet(@, device, sampling),
                    !.objects = destroyBufferAndTexture(@, call),
                    !.calls[call].pc = "resolved",
                    !.calls[call].sampling = sampling,
                    !.calls[call].events = @ \o <<"set", "unmap", "buffer.destroy",
                                                  "texture.destroy">>]

\* The rest of the function once mapAsync has settled (lines 79-90): a
\* rejected mapAsync rejects the call at line 79, a failed assert at line 86
afterMapAsync(p, call, outcome) ==
  LET device == p.calls[call].device
      result == RenderedByte(device)
      sampling == IF result = 2 THEN "last" ELSE "first"
      released == [p EXCEPT !.objects = destroyBufferAndTexture(@, call),
                             !.calls[call].events = @ \o <<"unmap", "buffer.destroy",
                                                           "texture.destroy">>]
  IN IF outcome = "rejected"
       THEN [p EXCEPT !.calls[call].pc = "rejected"]
     ELSE IF ~(result = 0 \/ result = 2)
       THEN [released EXCEPT !.calls[call].pc = "rejected"]
     ELSE [released EXCEPT !.cache = MapSet(@, device, sampling),
                            !.calls[call].pc = "resolved",
                            !.calls[call].sampling = sampling,
                            !.calls[call].events = Append(@, "set")]

SetProbe(p) ==
  /\ s_deviceToEitherSamplingIndex' = p.cache
  /\ probeCalls' = p.calls
  /\ gpuObjects' = p.objects
  /\ submitted' = p.submitted

\* A call of the function, up to its first await or its return
GetProvokingVertex(device) ==
  /\ Len(probeCalls) < MaxProbeCalls
  /\ SetProbe(getProvokingVertexForFlatInterpolationEitherSampling(Probe, device))
  /\ last' = Call("getProvokingVertexForFlatInterpolationEitherSampling",
                  [call |-> Len(probeCalls) + 1])
  /\ ret' = NoReturn
  /\ UNCHANGED <<heap, class>>
  /\ UNCHANGED trackerVars
  /\ UNCHANGED patchVars

\* buffer.mapAsync of a call settles and the call runs to its end
MapAsyncSettles(call, outcome) ==
  /\ call \in DOMAIN probeCalls
  /\ probeCalls[call].pc = "mapAsync"
  /\ SetProbe(afterMapAsync(Probe, call, outcome))
  /\ last' = Call("mapAsync settles",
                  [call |-> call, outcome |-> outcome,
                   device |-> probeCalls[call].device])
  /\ ret' = NoReturn
  /\ UNCHANGED <<heap, class>>
  /\ UNCHANGED trackerVars
  /\ UNCHANGED patchVars

NextProbe ==
  \/ \E device \in ProbeDevices : GetProvokingVertex(device)
  \/ \E call \in 1..MaxProbeCalls, outcome \in {"resolved", "rejected"} :
       MapAsyncSettles(call, outcome)

SpecProbe == Init /\ [][NextProbe]_vars

\* ------------------------------------------------------------ C31
\* The calls for a device that have resolved
ResolvedCalls(calls, device) ==
  {c \in DOMAIN calls : calls[c].device = device /\ calls[c].pc = "resolved"}

\* The place of an event among the events of a call, 0 when it is not there
PlaceOf(events, event) ==
  IF \E i \in DOMAIN events : events[i] = event
    THEN CHOOSE i \in DOMAIN events : events[i] = event
    ELSE 0

ResolvesToFirstOrLast ==
  /\ \A c \in DOMAIN probeCalls :
       probeCalls[c].pc = "resolved" => probeCalls[c].sampling \in FlatSampling
  /\ \A d \in DOMAIN s_deviceToEitherSamplingIndex :
       s_deviceToEitherSamplingIndex[d] \in FlatSampling
  /\ \A d \in ProbeDevices : \A c1, c2 \in ResolvedCalls(probeCalls, d) :
       probeCalls[c1].sampling = probeCalls[c2].sampling

LaterCallsAnswerFromTheCache ==
  last'.op = "getProvokingVertexForFlatInterpolationEitherSampling" =>
    LET call == last'.obj.call
        device == probeCalls'[call].device
        earlier == ResolvedCalls(probeCalls, device)
    IN earlier # {} =>
         /\ probeCalls'[call].pc = "resolved"
         /\ \A c \in earlier : probeCalls'[call].sampling = probeCalls[c].sampling
         /\ gpuObjects' = gpuObjects
         /\ submitted' = submitted
         /\ s_deviceToEitherSamplingIndex' = s_deviceToEitherSamplingIndex

DestroyedBeforeCached ==
  /\ \A c \in DOMAIN probeCalls :
       (probeCalls[c].pc = "resolved" /\ probeCalls[c].events # <<>>) =>
         LET events == probeCalls[c].events
         IN /\ PlaceOf(events, "set") # 0
            /\ PlaceOf(events, "buffer.destroy") # 0
            /\ PlaceOf(events, "texture.destroy") # 0
            /\ PlaceOf(events, "buffer.destroy") < PlaceOf(events, "set")
            /\ PlaceOf(events, "texture.destroy") < PlaceOf(events, "set")
            /\ \A i \in DOMAIN gpuObjects :
                 (gpuObjects[i].call = c /\ gpuObjects[i].kind \in {"GPUBuffer", "GPUTexture"})
                   => gpuObjects[i].destroyed
  /\ \A d \in DOMAIN s_deviceToEitherSamplingIndex :
       \E c \in ResolvedCalls(probeCalls, d) : probeCalls[c].events # <<>>

\* C31: a call of getProvokingVertexForFlatInterpolationEitherSampling that
\* resolves, resolves to 'first' or 'last'; a call made after a call for the
\* same device has resolved, resolves to the same value and creates no GPU
\* object and submits nothing; and a call that probes has destroyed its
\* buffer and its texture before it puts its result in the cache.
C31_ProbeOnceThenAnswerFromCache ==
  /\ [](ResolvesToFirstOrLast /\ DestroyedBeforeCached)
  /\ [][LaterCallsAnswerFromTheCache]_vars

\* Two overlapping calls for a device have both probed and resolved, and a
\* third call for it, made afterwards, has resolved without probing
C31_Witness ==
  /\ last.op = "getProvokingVertexForFlatInterpolationEitherSampling"
  /\ Len(probeCalls) = 3
  /\ probeCalls[1].device = probeCalls[3].device
  /\ probeCalls[2].device = probeCalls[3].device
  /\ probeCalls[1].events # <<>>
  /\ probeCalls[2].events # <<>>
  /\ probeCalls[1].pc = "resolved"
  /\ probeCalls[2].pc = "resolved"
  /\ probeCalls[3].pc = "resolved"
  /\ probeCalls[3].events = <<>>
  /\ probeCalls[3].sampling = "last"
  /\ Len(gpuObjects) = 2 * Len(ProbeObjectKinds)
  /\ Len(submitted) = 2

====
